---------------------------- MODULE Spec2Model ----------------------------
(***************************************************************************)
(* Form state controller of the IDTA form renderer (IDTAFormRenderer.tsx)  *)
(* with its array-state helpers (array-state.ts) and validation helpers    *)
(* (validation.ts).                                                        *)
(*                                                                         *)
(* A JavaScript string is a sequence of one-character strings, so that     *)
(* split, join, startsWith, String(n) and Number(s) are computed on the    *)
(* text as the code computes them.  A path is a sequence of such strings,  *)
(* a key is one such string (the path joined with ".").  A JavaScript      *)
(* object used as a map is a function whose DOMAIN is the set of its keys. *)
(***************************************************************************)
EXTENDS Integers, Sequences, FiniteSets, TLC

\* ------------------------------------------------------------------ bounds

\* at most this many addArrayItem calls in one session
MaxAdds == 2
\* addArrayItem is not called on a list of this many items
MaxItems == 3
\* at most this many submit handlers in flight at once
MaxInFlight == 2
\* entries of a value map handed to the exporter
MaxEntries == 2
\* elements under one parent in a template handed to the parser
MaxSiblings == 2
\* the largest declared minimum and maximum of a numeric element
MaxLimit == 3
\* at most this many listTemplates calls
MaxCalls == 3
\* at most this many catalog fetches are started
MaxFetches == 3

\* ------------------------------------------------------------ text helpers

Digits == <<"0", "1", "2", "3", "4", "5", "6", "7", "8", "9">>

isDigit(c) == \E i \in 1..Len(Digits) : Digits[i] = c

DigitValue(c) == (CHOOSE i \in 1..Len(Digits) : Digits[i] = c) - 1

\* /^\d+$/.test(segment)
isNumericSegment(segment) ==
    /\ Len(segment) > 0
    /\ \A i \in 1..Len(segment) : isDigit(segment[i])

\* Number(segment) of a numeric segment
RECURSIVE Number(_)
Number(segment) ==
    IF segment = <<>> THEN 0
    ELSE Number(SubSeq(segment, 1, Len(segment) - 1)) * 10
         + DigitValue(segment[Len(segment)])

\* `${index}` / String(index) of a non-negative integer
RECURSIVE String(_)
String(n) ==
    IF n < 10 THEN <<Digits[n + 1]>>
    ELSE Append(String(n \div 10), Digits[(n % 10) + 1])

\* s.startsWith(prefix)
startsWith(s, prefix) ==
    /\ Len(prefix) <= Len(s)
    /\ SubSeq(s, 1, Len(prefix)) = prefix

\* key.split('.')
RECURSIVE split(_)
split(key) ==
    IF \A i \in 1..Len(key) : key[i] # "."
    THEN <<key>>
    ELSE LET d == CHOOSE i \in 1..Len(key) :
                    /\ key[i] = "."
                    /\ \A j \in 1..(i - 1) : key[j] # "."
         IN <<SubSeq(key, 1, d - 1)>> \o split(SubSeq(key, d + 1, Len(key)))

\* segments.join('.')
RECURSIVE join(_)
join(segments) ==
    IF segments = <<>> THEN <<>>
    ELSE IF Len(segments) = 1 THEN segments[1]
    ELSE segments[1] \o <<".">> \o join(Tail(segments))

pathToKey(path) == join(path)

\* ------------------------------------------------------------- map helpers

EmptyMap == [k \in {} |-> TRUE]

Has(m, k) == k \in DOMAIN m

Put(m, k, v) == [x \in (DOMAIN m) \cup {k} |-> IF x = k THEN v ELSE m[x]]

Delete(m, k) == [x \in (DOMAIN m) \ {k} |-> m[x]]

Range(s) == {s[i] : i \in 1..Len(s)}

Max(S) == CHOOSE m \in S : \A x \in S : x <= m

Min(S) == CHOOSE m \in S : \A x \in S : m <= x

\* Array.from(set).sort((a, b) => a - b)
RECURSIVE SortAscending(_)
SortAscending(S) ==
    IF S = {} THEN <<>>
    ELSE <<Min(S)>> \o SortAscending(S \ {Min(S)})

\* array.filter((_, idx) => idx !== position), position counted from 0
RemoveAt(s, position) ==
    SubSeq(s, 1, position) \o SubSeq(s, position + 2, Len(s))

\* array.splice(position, 0, x), position counted from 0
InsertAt(s, position, x) ==
    SubSeq(s, 1, position) \o <<x>> \o SubSeq(s, position + 1, Len(s))

\* -------------------------------------------------------------- array-state

\* the (arrayPath, index) pairs one key contributes
ArrayEntriesOfKey(key) ==
    LET segments == split(key)
    IN  { <<join(SubSeq(segments, 1, i - 1)), Number(segments[i])>> :
            i \in { j \in 1..Len(segments) :
                      /\ isNumericSegment(segments[j])
                      /\ join(SubSeq(segments, 1, j - 1)) # <<>> } }

deriveArrayItems(vals) ==
    LET entries == UNION { ArrayEntriesOfKey(k) : k \in DOMAIN vals }
        paths   == { e[1] : e \in entries }
    IN  [ pk \in paths |->
            SortAscending({ e[2] : e \in { x \in entries : x[1] = pk } }) ]

\* mutant: the next index is the length of the list
nextArrayIndexByLength(indices) == Len(indices)

nextArrayIndex(indices) ==
    IF Len(indices) = 0 THEN 0 ELSE Max(Range(indices)) + 1

\* arrayItems[pathKey] ?? []
ItemsAt(items, pathKey) == IF Has(items, pathKey) THEN items[pathKey] ELSE <<>>

addArrayItemState(items, pathKey) ==
    LET current == ItemsAt(items, pathKey)
        updated == Append(current, nextArrayIndex(current))
    IN  Put(items, pathKey, updated)

\* mutant: the entries at the two positions change places
reorderArrayItemsBySwap(items, pathKey, fromPosition, toPosition) ==
    LET current == ItemsAt(items, pathKey)
    IN  IF \/ fromPosition < 0
           \/ fromPosition >= Len(current)
           \/ toPosition < 0
           \/ toPosition >= Len(current)
        THEN items
        ELSE Put(items, pathKey,
                 [ current EXCEPT ![fromPosition + 1] = current[toPosition + 1],
                                  ![toPosition + 1] = current[fromPosition + 1] ])

reorderArrayItems(items, pathKey, fromPosition, toPosition) ==
    LET current == ItemsAt(items, pathKey)
    IN  IF \/ fromPosition < 0
           \/ fromPosition >= Len(current)
           \/ toPosition < 0
           \/ toPosition >= Len(current)
        THEN items
        ELSE LET moved   == current[fromPosition + 1]
                 updated == InsertAt(RemoveAt(current, fromPosition), toPosition, moved)
             IN  Put(items, pathKey, updated)

removeKeysWithPrefix(obj, prefix) ==
    [ k \in { x \in DOMAIN obj : ~startsWith(x, prefix) } |-> obj[k] ]

\* mutant: the touched map is not cleaned
removeArrayValuesKeepTouched(vals, errs, tchd, pathKey, index) ==
    LET prefix == pathKey \o <<".">> \o String(index)
    IN  [ values  |-> removeKeysWithPrefix(vals, prefix),
          errors  |-> removeKeysWithPrefix(errs, prefix),
          touched |-> tchd ]

removeArrayValues(vals, errs, tchd, pathKey, index) ==
    LET prefix == pathKey \o <<".">> \o String(index)
    IN  [ values  |-> removeKeysWithPrefix(vals, prefix),
          errors  |-> removeKeysWithPrefix(errs, prefix),
          touched |-> removeKeysWithPrefix(tchd, prefix) ]

\* removedIndex: isNull stands for the null result, removedIndex is then unused
removeArrayItemState(items, pathKey, position) ==
    LET current == ItemsAt(items, pathKey)
    IN  IF position < 0 \/ position >= Len(current)
        THEN [ arrayItems |-> items, isNull |-> TRUE, removedIndex |-> 0 ]
        ELSE [ arrayItems   |-> Put(items, pathKey, RemoveAt(current, position)),
               isNull       |-> FALSE,
               removedIndex |-> current[position + 1] ]

\* while (next.length < minItems) next.push(nextArrayIndex(next))
RECURSIVE PadToMin(_, _)
PadToMin(next, minItems) ==
    IF Len(next) >= minItems THEN next
    ELSE PadToMin(Append(next, nextArrayIndex(next)), minItems)

\* mutant: a list below its minimum is replaced by the indices 0..minItems-1
ensureMinArrayItemsFromZero(items, minByPath) ==
    LET short == { pk \in DOMAIN minByPath : Len(ItemsAt(items, pk)) < minByPath[pk] }
    IN  [ pk \in (DOMAIN items) \cup short |->
            IF pk \in short THEN [ i \in 1..minByPath[pk] |-> i - 1 ]
            ELSE items[pk] ]

ensureMinArrayItems(items, minByPath) ==
    LET short == { pk \in DOMAIN minByPath : Len(ItemsAt(items, pk)) < minByPath[pk] }
    IN  [ pk \in (DOMAIN items) \cup short |->
            IF pk \in short THEN PadToMin(ItemsAt(items, pk), minByPath[pk])
            ELSE items[pk] ]

\* ---------------------------------------------------------------- template

\* getQualifierValue(qualifiers, type): the value of the first qualifier of
\* that type, "" when there is none
getQualifierValue(qualifiers, type) ==
    IF \E i \in 1..Len(qualifiers) : qualifiers[i].type = type
    THEN qualifiers[Min({ i \in 1..Len(qualifiers) : qualifiers[i].type = type })].value
    ELSE ""

getCardinality(qualifiers) ==
    LET value == getQualifierValue(qualifiers, "SMT/Cardinality")
    IN  IF value \in {"One", "ZeroToOne", "OneToMany", "ZeroToMany"}
        THEN value
        ELSE "ZeroToOne"

isRequired(qualifiers) == getCardinality(qualifiers) \in {"One", "OneToMany"}

isMultiple(qualifiers) == getCardinality(qualifiers) \in {"OneToMany", "ZeroToMany"}

INTEGER_TYPES ==
    { "xs:integer", "xs:int", "xs:long", "xs:short", "xs:byte",
      "xs:positiveInteger", "xs:nonNegativeInteger", "xs:negativeInteger",
      "xs:nonPositiveInteger", "xs:unsignedLong", "xs:unsignedInt",
      "xs:unsignedShort", "xs:unsignedByte", "xs:gYear" }

DECIMAL_TYPES == { "xs:decimal", "xs:double", "xs:float" }

valueTypeToInputType(valueType) ==
    CASE valueType = "xs:boolean" -> "boolean"
      [] valueType \in DECIMAL_TYPES -> "decimal"
      [] valueType \in INTEGER_TYPES -> "integer"
      [] valueType = "xs:date" -> "date"
      [] valueType = "xs:dateTime" -> "datetime"
      [] valueType = "xs:time" -> "time"
      [] valueType = "xs:anyURI" -> "url"
      [] valueType \in {"xs:base64Binary", "xs:hexBinary"} -> "blob"
      [] OTHER -> "text"

\* the numeric constraints read from the qualifiers; the qualifier values are
\* digit strings, parseInt / parseFloat of which is Number
extractConstraints(qualifiers) ==
    LET names == { n \in {"SMT/MinLength", "SMT/MaxLength", "SMT/Min", "SMT/Max"} :
                     \E i \in 1..Len(qualifiers) : qualifiers[i].type = n }
        field(n) == CASE n = "SMT/MinLength" -> "minLength"
                      [] n = "SMT/MaxLength" -> "maxLength"
                      [] n = "SMT/Min" -> "min"
                      [] n = "SMT/Max" -> "max"
    IN  [ f \in { field(n) : n \in names } |->
            Number(getQualifierValue(qualifiers,
                     CHOOSE n \in names : field(n) = f)) ]

determineInputType(element) ==
    CASE element.modelType = "Property" -> valueTypeToInputType(element.valueType)
      [] element.modelType = "MultiLanguageProperty" -> "multilanguage"
      [] element.modelType = "SubmodelElementCollection" -> "collection"
      [] element.modelType = "SubmodelElementList" -> "list"
      [] element.modelType = "Range" -> "range"
      [] element.modelType = "File" -> "file"
      [] element.modelType = "Blob" -> "blob"
      [] element.modelType = "ReferenceElement" -> "reference"
      [] element.modelType = "Entity" -> "entity"
      [] element.modelType = "Operation" -> "operation"
      [] element.modelType = "Capability" -> "capability"
      [] element.modelType = "BasicEventElement" -> "event"
      [] element.modelType \in {"RelationshipElement", "AnnotatedRelationshipElement"}
           -> "relationship"
      [] OTHER -> "text"

\* parseElement without the recursion into children: the ParsedElement fields
\* the form controller reads
parseElement(element, parentPath) ==
    LET idShort == IF element.idShort = <<>> THEN <<"u", "n", "n", "a", "m", "e", "d">>
                   ELSE element.idShort
        path    == Append(parentPath, idShort)
    IN  [ idShort     |-> idShort,
          path        |-> path,
          pathString  |-> join(path),
          modelType   |-> element.modelType,
          cardinality |-> getCardinality(element.qualifiers),
          isRequired  |-> isRequired(element.qualifiers),
          isArray     |-> isMultiple(element.qualifiers),
          valueType   |-> element.valueType,
          inputType   |-> determineInputType(element),
          constraints |-> IF element.modelType = "Property"
                          THEN extractConstraints(element.qualifiers)
                          ELSE EmptyMap ]

\* parseElements + flattenElements: the parsed elements of a tree, parents
\* before children, in document order
RECURSIVE parseElements(_, _)
parseElements(elements, parentPath) ==
    IF elements = <<>> THEN <<>>
    ELSE LET el     == elements[1]
             parsed == parseElement(el, parentPath)
             below  == IF el.modelType \in {"SubmodelElementCollection",
                                            "SubmodelElementList", "Entity"}
                       THEN parseElements(el.value, parsed.path)
                       ELSE <<>>
         IN  <<parsed>> \o below \o parseElements(Tail(elements), parentPath)

\* template.flatElements: path string -> element; map.set lets the last
\* element with a path string win
flattenElements(parsed) ==
    [ pk \in { parsed[i].pathString : i \in 1..Len(parsed) } |->
        parsed[Max({ i \in 1..Len(parsed) : parsed[i].pathString = pk })] ]

parseSubmodelTemplate(submodel) ==
    flattenElements(parseElements(submodel.submodelElements, <<>>))

\* ------------------------------------------------------------ the template

CardinalityQualifier(c) == [ type |-> "SMT/Cardinality", value |-> c ]

MaxLengthQualifier(digits) == [ type |-> "SMT/MaxLength", value |-> digits ]

Property(idShort, valueType, qualifiers) ==
    [ modelType |-> "Property", idShort |-> idShort, valueType |-> valueType,
      qualifiers |-> qualifiers, value |-> <<>> ]

SerialNumber == <<"S", "n">>
Tags == <<"T", "a", "g", "s">>
Items == <<"I", "t", "e", "m", "s">>

\* a required scalar with a length limit, an optional repeatable scalar and a
\* required repeatable scalar
FormSubmodel ==
    [ modelType |-> "Submodel",
      submodelElements |->
        << Property(SerialNumber, "xs:string",
                    <<CardinalityQualifier("One"), MaxLengthQualifier(<<"1">>)>>),
           Property(Tags, "xs:string", <<CardinalityQualifier("ZeroToMany")>>),
           Property(Items, "xs:string", <<CardinalityQualifier("OneToMany")>>) >> ]

\* --------------------------------------------------------------- validation

\* mutant: the element is looked up at the instance path itself
keepNumericSegments(path) == path

stripNumericSegments(path) == SelectSeq(path, LAMBDA segment : ~isNumericSegment(segment))

stripNumericSegmentsFromKey(key) ==
    join(SelectSeq(split(key), LAMBDA segment : ~isNumericSegment(segment)))

hasValueWithPrefix(vals, pathKey) ==
    LET prefix == pathKey \o <<".">>
    IN  \E key \in DOMAIN vals : key = pathKey \/ startsWith(key, prefix)

\* the values of the form: strings, numbers, booleans and undefined
StringValue(s) == [ type |-> "string", value |-> s ]
NumberValue(n) == [ type |-> "number", value |-> n ]
BooleanValue(b) == [ type |-> "boolean", value |-> b ]
UndefinedValue == [ type |-> "undefined", value |-> <<>> ]

\* obj[key]
Lookup(obj, key) == IF Has(obj, key) THEN obj[key] ELSE UndefinedValue

isEmptyValue(value) ==
    \/ value.type = "undefined"
    \/ value.type = "string" /\ value.value = <<>>

\* the result of a validation that found nothing
undefined == "undefined"

\* parseNumber: isNaN stands for its undefined result.  The strings of the
\* model are digit strings or texts without digits.
parseNumber(value) ==
    IF value.type = "number" THEN [ isNaN |-> FALSE, num |-> value.value ]
    ELSE IF value.type = "string" /\ isNumericSegment(value.value)
    THEN [ isNaN |-> FALSE, num |-> Number(value.value) ]
    ELSE [ isNaN |-> TRUE, num |-> 0 ]

\* mutant: the declared minimum and maximum themselves are rejected
validateValueExclusive(element, value) ==
    LET c == element.constraints
        n == parseNumber(value)
    IN  IF isEmptyValue(value) THEN undefined
        ELSE IF element.valueType \in INTEGER_TYPES \cup DECIMAL_TYPES
        THEN (IF n.isNaN THEN "Expected a number"
              ELSE IF Has(c, "min") /\ n.num <= c["min"] THEN "Minimum value"
              ELSE IF Has(c, "max") /\ n.num >= c["max"] THEN "Maximum value"
              ELSE undefined)
        ELSE undefined

\* validateValue for the scalar kinds (Property of boolean, integer, decimal
\* and string type); the branches for multilanguage, range, URL, date, time
\* and pattern belong to element kinds the modelled templates do not have
validateValue(element, value) ==
    LET c == element.constraints
        n == parseNumber(value)
    IN  IF isEmptyValue(value) THEN undefined
        ELSE IF element.valueType = "xs:boolean"
        THEN (IF value.type = "boolean" THEN undefined ELSE "Expected a boolean value")
        ELSE IF element.valueType \in INTEGER_TYPES
        THEN (IF n.isNaN THEN "Expected an integer"
              ELSE IF Has(c, "min") /\ n.num < c["min"] THEN "Minimum value"
              ELSE IF Has(c, "max") /\ n.num > c["max"] THEN "Maximum value"
              ELSE undefined)
        ELSE IF element.valueType \in DECIMAL_TYPES
        THEN (IF n.isNaN THEN "Expected a number"
              ELSE IF Has(c, "min") /\ n.num < c["min"] THEN "Minimum value"
              ELSE IF Has(c, "max") /\ n.num > c["max"] THEN "Maximum value"
              ELSE undefined)
        ELSE IF value.type = "string"
        THEN (IF Has(c, "minLength") /\ Len(value.value) < c["minLength"]
              THEN "Minimum length"
              ELSE IF Has(c, "maxLength") /\ Len(value.value) > c["maxLength"]
              THEN "Maximum length"
              ELSE undefined)
        ELSE undefined

\* the error of the required check of actions.validate for one required
\* element, undefined when the element is satisfied
requiredError(element, vals, items) ==
    IF element.inputType = "list" \/ element.isArray
    THEN (IF Len(ItemsAt(items, element.pathString)) = 0
          THEN "At least one item is required" ELSE undefined)
    ELSE IF element.inputType \in {"collection", "entity"}
    THEN (IF ~hasValueWithPrefix(vals, element.pathString)
          THEN "This section is required" ELSE undefined)
    ELSE IF isEmptyValue(Lookup(vals, element.pathString))
    THEN "This field is required" ELSE undefined

\* the error of the value loop of actions.validate for one key
valueError(flatElements, vals, key) ==
    LET baseKey == stripNumericSegmentsFromKey(key)
    IN  IF Has(flatElements, baseKey)
        THEN validateValue(flatElements[baseKey], vals[key])
        ELSE undefined

\* the error map actions.validate builds from the values and index sets it
\* reads: the value loop first, the required checks written over it
validateErrors(flatElements, vals, items) ==
    LET requiredKeys == { pk \in DOMAIN flatElements :
                            /\ flatElements[pk].isRequired
                            /\ requiredError(flatElements[pk], vals, items) # undefined }
        valueKeys    == { k \in DOMAIN vals : valueError(flatElements, vals, k) # undefined }
    IN  [ k \in requiredKeys \cup valueKeys |->
            IF k \in requiredKeys THEN requiredError(flatElements[k], vals, items)
            ELSE valueError(flatElements, vals, k) ]

\* ----------------------------------------------------------- parsed tree

\* obj.field, or the default when the object has no such field
Field(obj, field, default) == IF field \in DOMAIN obj THEN obj[field] ELSE default

\* getSemanticIdValue: ref?.keys?.[0]?.value, <<>> for undefined
getSemanticIdValue(ref) ==
    IF ref.type = "undefined" \/ ref.keys = <<>> THEN <<>> ELSE ref.keys[1].value

\* a missing semanticId
NoReference == [ type |-> "undefined", keys |-> <<>> ]

\* template.elements: parseElements keeping the tree.  Each ParsedElement has
\* the fields of parseElement and its semanticId, listElementType and children
RECURSIVE parseElementTree(_, _)
parseElementTree(elements, parentPath) ==
    [ i \in 1..Len(elements) |->
        LET el   == elements[i]
            base == parseElement(el, parentPath)
        IN  [ semanticId      |-> getSemanticIdValue(Field(el, "semanticId", NoReference)),
              listElementType |-> Field(el, "typeValueListElement", ""),
              children        |-> IF el.modelType \in {"SubmodelElementCollection",
                                                       "SubmodelElementList", "Entity"}
                                  THEN parseElementTree(el.value, base.path)
                                  ELSE <<>> ] @@ base ]

\* ----------------------------------------------------------------- exporter

\* the null a converter returns for an element it leaves out
Null == [ modelType |-> "null" ]

\* isEmpty of the exporter, for the scalar values of the model
isEmpty(value) ==
    \/ value.type = "undefined"
    \/ value.type = "string" /\ value.value = <<>>

\* the longest run of digits a text begins with
RECURSIVE LeadingDigits(_)
LeadingDigits(text) ==
    IF text = <<>> \/ ~isDigit(text[1]) THEN <<>>
    ELSE <<text[1]>> \o LeadingDigits(Tail(text))

\* the index a key holds right after pathKey: the match of
\* ^pathKey\.(\d+)(?:\.|$), as a set of at most one number
IndexOfKey(key, pathKey) ==
    LET prefix == pathKey \o <<".">>
        rest   == SubSeq(key, Len(prefix) + 1, Len(key))
        digits == LeadingDigits(rest)
    IN  IF /\ startsWith(key, prefix)
           /\ digits # <<>>
           /\ (Len(rest) = Len(digits) \/ rest[Len(digits) + 1] = ".")
        THEN { Number(digits) }
        ELSE {}

getArrayIndices(vals, pathKey) ==
    SortAscending(UNION { IndexOfKey(key, pathKey) : key \in DOMAIN vals })

scopeArrayValues(vals, pathKey, index) ==
    LET prefix   == pathKey \o <<".">> \o String(index)
        below    == { key \in DOMAIN vals : startsWith(key, prefix \o <<".">>) }
        exact    == { key \in DOMAIN vals : key = prefix }
        scope(k) == IF k = prefix THEN pathKey
                    ELSE pathKey \o <<".">> \o SubSeq(k, Len(prefix) + 2, Len(k))
    IN  [ sk \in { scope(k) : k \in exact \cup below } |->
            vals[CHOOSE k \in exact \cup below : scope(k) = sk] ]

\* text.includes(part)
includes(text, part) ==
    \E i \in 1..(Len(text) - Len(part) + 1) : SubSeq(text, i, i + Len(part) - 1) = part

\* formatPropertyValue: the exported text of a value, undefined for undefined.
\* The numbers of the model are non-negative integers, which Math.round
\* leaves as they are
formatPropertyValue(value, valueType) ==
    CASE value.type = "undefined" -> UndefinedValue
      [] value.type = "boolean" ->
           StringValue(IF value.value THEN <<"t", "r", "u", "e">>
                       ELSE <<"f", "a", "l", "s", "e">>)
      [] value.type = "number" -> StringValue(String(value.value))
      [] OTHER -> StringValue(value.value)

createReference(value) ==
    LET isModelRef == ~includes(value, <<":", "/", "/">>) /\ ~startsWith(value, <<"u", "r", "n", ":">>)
    IN  [ type |-> IF isModelRef THEN "ModelReference" ELSE "ExternalReference",
          keys |-> << [ type  |-> IF isModelRef THEN "Submodel" ELSE "GlobalReference",
                        value |-> value ] >> ]

\* element.semanticId ? createReference(element.semanticId) : undefined
ExportedSemanticId(element) ==
    IF element.semanticId # <<>> THEN createReference(element.semanticId) ELSE NoReference

convertProperty(element, value) ==
    [ modelType  |-> "Property",
      idShort    |-> element.idShort,
      semanticId |-> ExportedSemanticId(element),
      valueType  |-> IF element.valueType # "" THEN element.valueType ELSE "xs:string",
      value      |-> formatPropertyValue(value, element.valueType) ]

\* array.filter((el) => el !== null)
NotNull(converted) == SelectSeq(converted, LAMBDA el : el # Null)

RECURSIVE convertElement(_, _, _)

\* mutant: a collection is exported whether or not it has children
convertSMCWithoutChildren(element, vals, options) ==
    [ modelType  |-> "SubmodelElementCollection",
      idShort    |-> element.idShort,
      semanticId |-> ExportedSemanticId(element),
      value      |-> NotNull([ i \in 1..Len(element.children) |->
                                 convertElement(element.children[i], vals, options) ]) ]

convertSMC(element, vals, options) ==
    LET children == NotNull([ i \in 1..Len(element.children) |->
                                convertElement(element.children[i], vals, options) ])
    IN  IF ~options.includeEmpty /\ ~element.isRequired /\ Len(children) = 0
        THEN Null
        ELSE [ modelType  |-> "SubmodelElementCollection",
               idShort    |-> element.idShort,
               semanticId |-> ExportedSemanticId(element),
               value      |-> children ]

convertSML(element, vals, options) ==
    LET pathKey == element.pathString
        indices == getArrayIndices(vals, pathKey)
        items   == NotNull([ i \in 1..Len(indices) |->
                      IF element.children = <<>> THEN Null
                      ELSE convertElement([ element.children[1] EXCEPT !.isArray = FALSE ],
                                          scopeArrayValues(vals, pathKey, indices[i]),
                                          options) ])
    IN  IF Len(items) = 0 /\ ~options.includeEmpty /\ ~element.isRequired
        THEN Null
        ELSE [ modelType  |-> "SubmodelElementList",
               idShort    |-> element.idShort,
               semanticId |-> ExportedSemanticId(element),
               typeValueListElement |->
                   IF element.listElementType # "" THEN element.listElementType
                   ELSE IF element.children # <<>> THEN element.children[1].modelType
                   ELSE "Property",
               valueTypeListElement |-> element.valueType,
               value      |-> items ]

\* mutant: the items are taken from the value at the element's own key only
convertDirectValue(element, vals, options) ==
    [ modelType  |-> "SubmodelElementList",
      idShort    |-> element.idShort,
      semanticId |-> ExportedSemanticId(element),
      typeValueListElement |-> element.modelType,
      valueTypeListElement |-> element.valueType,
      value      |-> IF Has(vals, element.pathString)
                     THEN NotNull(<< convertElement([ element EXCEPT !.isArray = FALSE ],
                                                    vals, options) >>)
                     ELSE <<>> ]

convertArrayElement(element, vals, options) ==
    LET pathKey == element.pathString
        single  == [ element EXCEPT !.isArray = FALSE ]
        indices == getArrayIndices(vals, pathKey)
        indexed == NotNull([ i \in 1..Len(indices) |->
                      convertElement(single, scopeArrayValues(vals, pathKey, indices[i]),
                                     options) ])
        items   == IF Len(indexed) = 0 /\ Has(vals, pathKey)
                   THEN NotNull(<< convertElement(single, vals, options) >>)
                   ELSE indexed
    IN  IF Len(items) = 0 /\ ~options.includeEmpty /\ ~element.isRequired
        THEN Null
        ELSE [ modelType  |-> "SubmodelElementList",
               idShort    |-> element.idShort,
               semanticId |-> ExportedSemanticId(element),
               typeValueListElement |-> element.modelType,
               valueTypeListElement |-> element.valueType,
               value      |-> items ]

\* convertElement for the element kinds of the modelled templates (Property,
\* SubmodelElementCollection, SubmodelElementList); without the warnings
convertElement(element, vals, options) ==
    LET value           == Lookup(vals, element.pathString)
        isContainerType == element.modelType \in {"SubmodelElementCollection",
                                                  "SubmodelElementList", "Entity"}
    IN  IF /\ ~options.includeEmpty
           /\ ~element.isRequired
           /\ isEmpty(value)
           /\ ~isContainerType
           /\ ~element.isArray
        THEN Null
        ELSE IF element.modelType = "SubmodelElementList"
        THEN convertSML(element, vals, options)
        ELSE IF element.isArray
        THEN convertArrayElement(element, vals, options)
        ELSE IF element.modelType = "Property"
        THEN convertProperty(element, value)
        ELSE IF element.modelType = "SubmodelElementCollection"
        THEN convertSMC(element, vals, options)
        ELSE Null

\* the warnings convertElement pushes for an element, in order: one for an
\* element kind without converter that reaches the switch, one for each item
\* of a list without item template
RECURSIVE elementWarnings(_, _, _)
elementWarnings(element, vals, options) ==
    LET pathKey == element.pathString
        value   == Lookup(vals, pathKey)
        indices == getArrayIndices(vals, pathKey)
        single  == [ element EXCEPT !.isArray = FALSE ]
        RECURSIVE OfItems(_, _)
        OfItems(i, item) ==
            IF i > Len(indices) THEN <<>>
            ELSE elementWarnings(item, scopeArrayValues(vals, pathKey, indices[i]), options)
                 \o OfItems(i + 1, item)
        RECURSIVE OfChildren(_)
        OfChildren(i) ==
            IF i > Len(element.children) THEN <<>>
            ELSE elementWarnings(element.children[i], vals, options) \o OfChildren(i + 1)
    IN  IF /\ ~options.includeEmpty
           /\ ~element.isRequired
           /\ isEmpty(value)
           /\ element.modelType \notin {"SubmodelElementCollection", "SubmodelElementList",
                                        "Entity"}
           /\ ~element.isArray
        THEN <<>>
        ELSE IF element.modelType = "SubmodelElementList"
        THEN (IF element.children = <<>>
              THEN [ i \in 1..Len(indices) |->
                       [ warning |-> "missing item template", modelType |-> element.modelType,
                         pathKey |-> pathKey ] ]
              ELSE OfItems(1, [ element.children[1] EXCEPT !.isArray = FALSE ]))
        ELSE IF element.isArray
        THEN (IF /\ NotNull([ i \in 1..Len(indices) |->
                               convertElement(single,
                                              scopeArrayValues(vals, pathKey, indices[i]),
                                              options) ]) = <<>>
                 /\ Has(vals, pathKey)
              THEN OfItems(1, single) \o elementWarnings(single, vals, options)
              ELSE OfItems(1, single))
        ELSE IF element.modelType = "Property"
        THEN <<>>
        ELSE IF element.modelType = "SubmodelElementCollection"
        THEN OfChildren(1)
        ELSE << [ warning |-> "Unsupported element type", modelType |-> element.modelType,
                  pathKey |-> pathKey ] >>

\* exportToSubmodel: the warnings of the export result
exportWarnings(elements, vals, options) ==
    LET RECURSIVE All(_)
        All(i) == IF i > Len(elements) THEN <<>>
                  ELSE elementWarnings(elements[i], vals, options) \o All(i + 1)
    IN  All(1)

\* exportToSubmodel: the submodelElements of the exported submodel
exportToSubmodel(elements, vals, options) ==
    NotNull([ i \in 1..Len(elements) |-> convertElement(elements[i], vals, options) ])

\* ----------------------------------------------------------------- importer

\* the value types isNumericType of the importer names
IMPORT_NUMERIC_TYPES ==
    { "xs:decimal", "xs:double", "xs:float", "xs:integer", "xs:int", "xs:long",
      "xs:short", "xs:byte", "xs:positiveInteger", "xs:nonNegativeInteger",
      "xs:negativeInteger", "xs:nonPositiveInteger", "xs:unsignedLong",
      "xs:unsignedInt", "xs:unsignedShort", "xs:unsignedByte" }

\* parsePropertyValue.  Number(raw) of a text of digits (the empty text gives
\* 0) is a number, of any other text of the model NaN, which keeps the raw text
parsePropertyValue(property) ==
    LET raw == property.value
    IN  IF raw.type = "undefined" THEN UndefinedValue
        ELSE IF property.valueType = "xs:boolean"
        THEN BooleanValue(raw.value = <<"t", "r", "u", "e">>)
        ELSE IF property.valueType \in IMPORT_NUMERIC_TYPES
        THEN (IF \A i \in 1..Len(raw.value) : isDigit(raw.value[i])
              THEN NumberValue(Number(raw.value))
              ELSE raw)
        ELSE raw

\* addElementValues: the assignments values[pathKey] = ... it makes for one
\* element, in order, as <<key, value>> pairs
RECURSIVE addElementValues(_, _)
addElementValues(element, parentPath) ==
    LET nextPath == IF element.idShort # <<>> THEN Append(parentPath, element.idShort)
                    ELSE parentPath
        RECURSIVE Children(_, _)
        Children(i, indexed) ==
            IF i > Len(element.value) THEN <<>>
            ELSE addElementValues(element.value[i],
                                  IF indexed THEN Append(nextPath, String(i - 1))
                                  ELSE nextPath)
                 \o Children(i + 1, indexed)
    IN  CASE element.modelType = "Property" ->
               << <<join(nextPath), parsePropertyValue(element)>> >>
          [] element.modelType = "SubmodelElementCollection" -> Children(1, FALSE)
          [] element.modelType = "SubmodelElementList" -> Children(1, TRUE)
          [] OTHER -> <<>>

\* importSubmodelValues: the value map after all assignments, a later
\* assignment to a key replacing an earlier one
importSubmodelValues(submodelElements) ==
    LET RECURSIVE All(_)
        All(i) == IF i > Len(submodelElements) THEN <<>>
                  ELSE addElementValues(submodelElements[i], <<>>) \o All(i + 1)
        assigned == All(1)
    IN  [ key \in { assigned[i][1] : i \in 1..Len(assigned) } |->
            assigned[Max({ i \in 1..Len(assigned) : assigned[i][1] = key })][2] ]

\* ---------------------------------------------------------- form controller

VARIABLES
    template,       \* template.flatElements of the parsed submodel prop
    initialValues,  \* the initialValues prop
    values,         \* FormState.values
    errors,         \* FormState.errors
    touched,        \* FormState.touched
    arrayItems,     \* FormState.arrayItems
    isDirty,        \* FormState.isDirty
    isValid,        \* FormState.isValid
    isSubmitting,   \* FormState.isSubmitting
    closure,        \* state.values and state.arrayItems as the current actions object captured them
    mounted,        \* the mount effect has run
    pending,        \* pending[s]: the onSubmit promise of submit call s has not settled
    handed,         \* the value map the last onSubmit call received
    addCount,       \* number of addArrayItem calls so far
    everLive,       \* per array path, every index that was ever in its list
    lastOp,         \* the last operation called on the actions object
    onChange,       \* the onChange prop is given
    formValues,     \* the value map the page keeps from the onChange calls
    templateListCache,  \* the cached catalog and the promise of the fetch in flight
    promises,       \* the promises of the catalog fetches started so far
    returned,       \* what each listTemplates call so far returned
    input,          \* the arguments of a call of a library function
    output          \* what the last call of a library function returned

vars == << template, initialValues, values, errors, touched, arrayItems, isDirty,
           isValid, isSubmitting, closure, mounted, pending, handed, addCount,
           everLive, lastOp, onChange, formValues, templateListCache, promises,
           returned, input, output >>

\* the module state of the template fetcher and the calls made on it
fetcher == << templateListCache, promises, returned >>

formState == << values, errors, touched, arrayItems, isDirty, isValid, isSubmitting >>

\* everything of the form component, and what the page keeps of it
controller == << template, initialValues, values, errors, touched, arrayItems, isDirty,
                 isValid, isSubmitting, closure, mounted, pending, handed, addCount,
                 everLive, lastOp, onChange, formValues >>

Slots == 1..MaxInFlight

A == <<"A">>
AB == <<"A", "B">>

\* what a field can be set to: the empty string, a text of one and of two characters
FieldValues == { StringValue(<<>>), StringValue(A), StringValue(AB) }

\* the initialValues props a form is mounted with: none, items whose index
\* texts share a prefix, and an item with a key below it
InitialValuesChoices ==
    { EmptyMap,
      [ k \in { join(<<Tags, String(1)>>), join(<<Tags, String(10)>>) } |-> StringValue(A) ],
      [ k \in { join(<<Tags, String(1)>>), join(<<Tags, String(2)>>),
                join(<<Tags, String(12)>>) } |-> StringValue(A) ],
      [ k \in { join(<<Tags, String(1)>>), join(<<Tags, String(1), A>>),
                join(<<Tags, String(2)>>) } |-> StringValue(A) ] }

\* an operation call: its name, the key and index it was about, its result, and
\* for a removal the maps an entry was purged from
Op(op, key, index, result) ==
    [ op |-> op, key |-> key, index |-> index, result |-> result, purged |-> {} ]

\* the union of two index histories
Remember(history, items) ==
    [ pk \in (DOMAIN history) \cup (DOMAIN items) |->
        (IF Has(history, pk) THEN history[pk] ELSE {}) \cup Range(ItemsAt(items, pk)) ]

\* no library function was called
NoCall == [ op |-> "none" ]

\* no promise; the null of templateListCache.inflight
NoPromise == 0

\* templateListCache.value === null
NoList == [ isNull |-> TRUE ]

\* the module of the template fetcher as loaded: nothing cached, nothing in
\* flight, no call made
ModuleLoaded ==
    /\ templateListCache = [ value |-> NoList, inflight |-> NoPromise ]
    /\ promises = <<>>
    /\ returned = <<>>

\* createInitialState() with values and arrayItems of the useState initializer,
\* for a form of the given template mounted with one of the given
\* initialValues props
FormOf(submodel, initialValuesChoices) ==
    /\ template = parseSubmodelTemplate(submodel)
    /\ initialValues \in initialValuesChoices
    /\ values = initialValues
    /\ errors = EmptyMap
    /\ touched = EmptyMap
    /\ arrayItems = deriveArrayItems(initialValues)
    /\ isDirty = FALSE
    /\ isValid = TRUE
    /\ isSubmitting = FALSE
    /\ closure = [ values |-> initialValues, arrayItems |-> deriveArrayItems(initialValues) ]
    /\ mounted = FALSE
    /\ pending = [ s \in Slots |-> FALSE ]
    /\ handed = EmptyMap
    /\ addCount = 0
    /\ everLive = Remember(EmptyMap, deriveArrayItems(initialValues))
    /\ lastOp = Op("mount", <<>>, 0, FALSE)

\* the first render of a form that is given no onChange prop
FirstRenderOf(submodel, initialValuesChoices) ==
    /\ FormOf(submodel, initialValuesChoices)
    /\ onChange = FALSE
    /\ formValues = EmptyMap
    /\ ModuleLoaded

\* the first render of the form of FormSubmodel
FirstRender(initialValuesChoices) == FirstRenderOf(FormSubmodel, initialValuesChoices)

\* a mounted form, no library function called from outside it
Mount(initialValuesChoices) ==
    /\ FirstRender(initialValuesChoices)
    /\ input = NoCall
    /\ output = NoCall

Init == Mount(InitialValuesChoices)

\* the paths of the repeatable elements of the template
ArrayPaths == { template[pk].path : pk \in { k \in DOMAIN template : template[k].isArray } }

\* the paths of the single-occurrence elements of the template
ScalarPaths == { template[pk].path : pk \in { k \in DOMAIN template : ~template[k].isArray } }

\* the paths of the fields rendered for a repeatable element: one per live
\* index (applyArrayIndex)
ItemFields(arrayPath) ==
    { Append(arrayPath, String(index)) :
        index \in Range(ItemsAt(arrayItems, join(arrayPath))) }

Positions(path) == 0..Len(ItemsAt(arrayItems, join(path)))

\* the effect that pads the required arrays, run once after the first render
EnsureMinEffect ==
    /\ ~mounted
    /\ LET arrays    == { pk \in DOMAIN template : template[pk].isArray }
           minByPath == [ pk \in arrays |-> IF template[pk].isRequired THEN 1 ELSE 0 ]
           next      == ensureMinArrayItems(arrayItems, minByPath)
       IN  /\ arrayItems' = next
           /\ everLive' = Remember(everLive, next)
    /\ mounted' = TRUE
    /\ UNCHANGED << fetcher, template, initialValues, onChange, formValues, input, output, values, errors, touched, isDirty, isValid,
                    isSubmitting, closure, pending, handed, addCount, lastOp >>

\* a re-render: useMemo rebuilds actions over the current state.values and
\* state.arrayItems
Render ==
    /\ mounted
    /\ closure # [ values |-> values, arrayItems |-> arrayItems ]
    /\ closure' = [ values |-> values, arrayItems |-> arrayItems ]
    /\ UNCHANGED << fetcher, template, initialValues, onChange, formValues, input, output, formState, mounted, pending, handed,
                    addCount, everLive, lastOp >>

setValue(path, value) ==
    /\ mounted
    /\ LET key        == pathToKey(path)
           newValues  == Put(values, key, value)
           basePath   == stripNumericSegments(path)
           baseKey    == pathToKey(basePath)
           fieldError == IF Has(template, baseKey)
                         THEN validateValue(template[baseKey], value)
                         ELSE undefined
           newErrors  == IF fieldError # undefined
                         THEN Put(errors, key, fieldError)
                         ELSE Delete(errors, key)
       IN  /\ values' = newValues
           /\ errors' = newErrors
           /\ isValid' = (DOMAIN newErrors = {})
           /\ isDirty' = TRUE
           /\ lastOp' = Op("setValue", key, 0, fieldError = undefined /\ ~isEmptyValue(value))
           /\ formValues' = IF onChange THEN newValues ELSE formValues
    /\ UNCHANGED << fetcher, template, initialValues, onChange, input, output, touched, arrayItems, isSubmitting, closure,
                    mounted, pending, handed, addCount, everLive >>

\* error = "" stands for the undefined argument that clears the entry
setError(path, error) ==
    /\ mounted
    /\ LET key       == pathToKey(path)
           newErrors == IF error # "" THEN Put(errors, key, error) ELSE Delete(errors, key)
       IN  /\ errors' = newErrors
           /\ isValid' = (DOMAIN newErrors = {})
           /\ lastOp' = Op("setError", <<>>, 0, error # "")
    /\ UNCHANGED << fetcher, template, initialValues, onChange, formValues, input, output, values, touched, arrayItems, isDirty,
                    isSubmitting, closure, mounted, pending, handed, addCount, everLive >>

setTouched(path) ==
    /\ mounted
    /\ touched' = Put(touched, pathToKey(path), TRUE)
    /\ lastOp' = Op("setTouched", <<>>, 0, TRUE)
    /\ UNCHANGED << fetcher, template, initialValues, onChange, formValues, input, output, values, errors, arrayItems, isDirty, isValid,
                    isSubmitting, closure, mounted, pending, handed, addCount, everLive >>

addArrayItem(path) ==
    /\ mounted
    /\ addCount < MaxAdds
    /\ Len(ItemsAt(arrayItems, pathToKey(path))) < MaxItems
    /\ LET pathKey == pathToKey(path)
           next    == addArrayItemState(arrayItems, pathKey)
       IN  /\ arrayItems' = next
           /\ everLive' = Remember(everLive, next)
           /\ lastOp' = Op("addArrayItem", pathKey, next[pathKey][Len(next[pathKey])], TRUE)
    /\ isDirty' = TRUE
    /\ addCount' = addCount + 1
    /\ UNCHANGED << fetcher, template, initialValues, onChange, formValues, input, output, values, errors, touched, isValid, isSubmitting,
                    closure, mounted, pending, handed >>

removeArrayItem(path, position) ==
    /\ mounted
    /\ LET pathKey == pathToKey(path)
           result  == removeArrayItemState(arrayItems, pathKey, position)
           cleaned == removeArrayValues(values, errors, touched, pathKey, result.removedIndex)
       IN  IF result.isNull
           THEN /\ lastOp' = Op("removeArrayItem", pathKey, 0, FALSE)
                /\ UNCHANGED formState
           ELSE /\ values' = cleaned.values
                /\ errors' = cleaned.errors
                /\ touched' = cleaned.touched
                /\ arrayItems' = result.arrayItems
                /\ isDirty' = TRUE
                /\ lastOp' = [ Op("removeArrayItem", pathKey, result.removedIndex, TRUE)
                                EXCEPT !.purged =
                                  { m \in {"values"} : cleaned.values # values }
                                  \cup { m \in {"errors"} : cleaned.errors # errors }
                                  \cup { m \in {"touched"} : cleaned.touched # touched } ]
                /\ UNCHANGED << isValid, isSubmitting >>
    /\ UNCHANGED << fetcher, template, initialValues, onChange, formValues, input, output, closure, mounted, pending, handed, addCount,
                    everLive >>

reorderArrayItem(path, fromPosition, toPosition) ==
    /\ mounted
    /\ LET pathKey == pathToKey(path)
       IN  /\ arrayItems' = reorderArrayItems(arrayItems, pathKey, fromPosition, toPosition)
           /\ lastOp' = Op("reorderArrayItem", <<>>, 0, TRUE)
    /\ isDirty' = TRUE
    /\ UNCHANGED << fetcher, template, initialValues, onChange, formValues, input, output, values, errors, touched, isValid, isSubmitting,
                    closure, mounted, pending, handed, addCount, everLive >>

\* mutant: reset spreads the previous state instead of createInitialState()
resetOverPreviousState ==
    /\ mounted
    /\ values' = initialValues
    /\ arrayItems' = deriveArrayItems(initialValues)
    /\ everLive' = Remember(everLive, deriveArrayItems(initialValues))
    /\ lastOp' = Op("reset", <<>>, 0, TRUE)
    /\ UNCHANGED << fetcher, template, initialValues, onChange, formValues, input, output, errors, touched, isDirty, isValid,
                    isSubmitting, closure, mounted, pending, handed, addCount >>

reset ==
    /\ mounted
    /\ values' = initialValues
    /\ errors' = EmptyMap
    /\ touched' = EmptyMap
    /\ arrayItems' = deriveArrayItems(initialValues)
    /\ isDirty' = FALSE
    /\ isValid' = TRUE
    /\ isSubmitting' = FALSE
    /\ everLive' = Remember(everLive, deriveArrayItems(initialValues))
    /\ lastOp' = Op("reset", <<>>, 0, TRUE)
    /\ UNCHANGED << fetcher, template, initialValues, onChange, formValues, input, output, closure, mounted, pending, handed, addCount >>

\* actions.validate reads state.values and state.arrayItems of its closure
validate ==
    /\ mounted
    /\ LET errs == validateErrors(template, closure.values, closure.arrayItems)
       IN  /\ errors' = errs
           /\ isValid' = (DOMAIN errs = {})
           /\ lastOp' = Op("validate", <<>>, 0, DOMAIN errs = {})
    /\ UNCHANGED << fetcher, template, initialValues, onChange, formValues, input, output, values, touched, arrayItems, isDirty,
                    isSubmitting, closure, mounted, pending, handed, addCount, everLive >>

\* actions.submit up to its await: validate, then either the finally block at
\* once (invalid) or the onSubmit call whose promise is awaited (valid)
submit(s) ==
    /\ mounted
    /\ ~pending[s]
    /\ LET errs == validateErrors(template, closure.values, closure.arrayItems)
       IN  /\ errors' = errs
           /\ isValid' = (DOMAIN errs = {})
           /\ IF DOMAIN errs # {}
              THEN /\ isSubmitting' = FALSE
                   /\ UNCHANGED << pending, handed >>
              ELSE /\ isSubmitting' = TRUE
                   /\ pending' = [ pending EXCEPT ![s] = TRUE ]
                   /\ handed' = closure.values
           /\ lastOp' = Op("submit", <<>>, s, DOMAIN errs = {})
    /\ UNCHANGED << fetcher, template, initialValues, onChange, formValues, input, output, values, touched, arrayItems, isDirty,
                    closure, mounted, addCount, everLive >>

\* mutant: the flag is cleared after the await, without try/finally
submittingAfterAwait(outcome) == outcome = "rejected"

\* isSubmitting as the finally block of actions.submit sets it, whether the
\* awaited promise resolved or rejected
submittingAfterFinally(outcome) == FALSE

\* the onSubmit promise of submit call s resolves or rejects: the finally block
settle(s, outcome) ==
    /\ pending[s]
    /\ pending' = [ pending EXCEPT ![s] = FALSE ]
    /\ isSubmitting' = submittingAfterFinally(outcome)
    /\ lastOp' = Op(outcome, <<>>, s, TRUE)
    /\ UNCHANGED << fetcher, template, initialValues, onChange, formValues, input, output, values, errors, touched, arrayItems, isDirty,
                    isValid, closure, mounted, handed, addCount, everLive >>

\* the operations on the index sets
NextArrays ==
    \/ EnsureMinEffect
    \/ \E path \in ArrayPaths : addArrayItem(path)
    \/ \E path \in ArrayPaths : \E position \in Positions(path) :
         removeArrayItem(path, position)
    \/ \E path \in ArrayPaths : \E fromPosition, toPosition \in Positions(path) :
         reorderArrayItem(path, fromPosition, toPosition)
    \/ reset

SpecArrays == Init /\ [][NextArrays]_vars

\* the array operations together with the value, error and touched entries of
\* the items of a repeatable element and of a single-occurrence element
NextPurge ==
    \/ EnsureMinEffect
    \/ \E path \in ItemFields(<<Tags>>) \cup {<<SerialNumber>>} : setValue(path, StringValue(A))
    \/ \E path \in ItemFields(<<Tags>>) : setError(path, "Custom error")
    \/ \E path \in ItemFields(<<Tags>>) : setTouched(path)
    \/ \E path \in ArrayPaths : \E position \in Positions(path) :
         removeArrayItem(path, position)
    \/ \E fromPosition, toPosition \in Positions(<<Tags>>) :
         reorderArrayItem(<<Tags>>, fromPosition, toPosition)
    \/ reset

SpecPurge == Init /\ [][NextPurge]_vars

\* the initialValues props of the forms that are submitted: none, and a
\* value for the required scalar
SubmitInitialValues ==
    { EmptyMap, [ k \in { SerialNumber } |-> StringValue(A) ] }

InitSubmit == Mount(SubmitInitialValues)

\* submit with the operations that change what it validates and the flag it sets
NextSubmit ==
    \/ EnsureMinEffect
    \/ Render
    \/ \E value \in FieldValues : setValue(<<SerialNumber>>, value)
    \/ setError(<<SerialNumber>>, "Custom error")
    \/ \E position \in Positions(<<Items>>) : removeArrayItem(<<Items>>, position)
    \/ reset
    \/ \E s \in Slots : submit(s)
    \/ \E s \in Slots, outcome \in {"resolved", "rejected"} : settle(s, outcome)

SpecSubmit == InitSubmit /\ [][NextSubmit]_vars

\* every onSubmit promise settles
FairSubmit ==
    SpecSubmit /\ \A s \in Slots : WF_vars(\E outcome \in {"resolved", "rejected"} : settle(s, outcome))

\* the initialValues props of the forms that are validated: none, and one
\* item of the optional repeatable element
ValidateInitialValues ==
    { EmptyMap, [ k \in { join(<<Tags, String(0)>>) } |-> StringValue(A) ] }

InitValidate == Mount(ValidateInitialValues)

\* validate with the operations that change the values and index sets it
\* reads and the error map it replaces
NextValidate ==
    \/ EnsureMinEffect
    \/ Render
    \/ \E value \in FieldValues : setValue(<<SerialNumber>>, value)
    \/ \E path \in ItemFields(<<Tags>>) : setValue(path, StringValue(A))
    \/ \E error \in {"", "Custom error"} : setError(<<SerialNumber>>, error)
    \/ \E position \in Positions(<<Tags>>) : removeArrayItem(<<Tags>>, position)
    \/ reset
    \/ validate

SpecValidate == InitValidate /\ [][NextValidate]_vars

\* -------------------------------------------------- export and import calls

Collection(idShort, qualifiers, children) ==
    [ modelType |-> "SubmodelElementCollection", idShort |-> idShort, valueType |-> "",
      qualifiers |-> qualifiers, value |-> children ]

\* a SubmodelElementList; valueType is its valueTypeListElement
List(idShort, typeValueListElement, valueTypeListElement, qualifiers, children) ==
    [ modelType |-> "SubmodelElementList", idShort |-> idShort,
      valueType |-> valueTypeListElement, typeValueListElement |-> typeValueListElement,
      qualifiers |-> qualifiers, value |-> children ]

\* the element with a semanticId, when a reference is given
WithSemanticId(element, ref) ==
    IF ref = NoReference THEN element ELSE [ semanticId |-> ref ] @@ element

Count == <<"C", "o", "u", "n", "t">>
Address == <<"A", "d", "r">>
Street == <<"S", "t">>
City == <<"C", "y">>
Measurements == <<"M", "s">>
Measurement == <<"M">>
TagsLike == <<"T", "a", "g", "s", "X">>

GlobalReference(value) ==
    [ type |-> "ExternalReference", keys |-> << [ type |-> "GlobalReference", value |-> value ] >> ]

ModelReference(value) ==
    [ type |-> "ModelReference", keys |-> << [ type |-> "Submodel", value |-> value ] >> ]

\* the semantic identifiers of the templates: none, a URL, a urn:, an IRDI and
\* a plain identifier as external references, a plain identifier as a model
\* reference
SemanticIds ==
    { NoReference,
      GlobalReference(<<"h", ":", "/", "/", "x">>),
      GlobalReference(<<"u", "r", "n", ":", "x">>),
      GlobalReference(<<"0", "1", "7", "3", "#", "1">>),
      GlobalReference(<<"x">>),
      ModelReference(<<"x">>) }

\* a template with an optional number, an optional repeatable text, a group
\* (single or repeatable) with a required or optional child and an optional
\* child, and a list of numbers
ExportSubmodel(ref, addressCardinality, streetCardinality) ==
    [ modelType |-> "Submodel",
      submodelElements |->
        << WithSemanticId(Property(Count, "xs:integer", <<>>), ref),
           WithSemanticId(Property(Tags, "xs:string", <<CardinalityQualifier("ZeroToMany")>>), ref),
           WithSemanticId(
             Collection(Address, <<CardinalityQualifier(addressCardinality)>>,
               << WithSemanticId(Property(Street, "xs:string",
                                          <<CardinalityQualifier(streetCardinality)>>), ref),
                  Property(City, "xs:string", <<>>) >>), ref),
           WithSemanticId(
             List(Measurements, "Property", "xs:integer", <<>>,
               << Property(Measurement, "xs:integer", <<>>) >>), ref) >> ]

\* the entries a value map for the template may hold
ExportEntries(addressCardinality) ==
    LET common == { <<join(<<Count>>), StringValue(<<"7">>)>>,
                    <<join(<<Tags, String(0)>>), StringValue(A)>>,
                    <<join(<<Tags, String(2)>>), StringValue(AB)>>,
                    <<join(<<Tags, String(1)>>), StringValue(<<>>)>>,
                    <<join(<<Tags>>), StringValue(A)>>,
                    <<join(<<TagsLike, String(5)>>), StringValue(A)>>,
                    <<join(<<Measurements, String(0), Measurement>>), NumberValue(1)>>,
                    <<join(<<Measurements, String(1), Measurement>>), NumberValue(2)>> }
    IN  IF addressCardinality = "ZeroToMany"
        THEN common \cup { <<join(<<Address, String(0), Street>>), StringValue(A)>>,
                           <<join(<<Address, String(0), City>>), StringValue(AB)>>,
                           <<join(<<Address, String(1), Street>>), StringValue(AB)>> }
        ELSE common \cup { <<join(<<Address, Street>>), StringValue(A)>>,
                           <<join(<<Address, City>>), StringValue(AB)>>,
                           <<join(<<Address, City>>), StringValue(<<>>)>> }

\* the value maps of at most MaxEntries of these entries, one per key
ExportValues(addressCardinality) ==
    { [ k \in { e[1] : e \in chosen } |-> (CHOOSE e \in chosen : e[1] = k)[2] ] :
        chosen \in { c \in SUBSET ExportEntries(addressCardinality) :
                       /\ Cardinality(c) <= MaxEntries
                       /\ \A e1, e2 \in c : e1[1] = e2[1] => e1 = e2 } }

\* the calls of exportToSubmodel
ExportInputs ==
    { [ op |-> "exportToSubmodel",
        submodel |-> ExportSubmodel(ref, addressCardinality, streetCardinality),
        values |-> vals, options |-> [ includeEmpty |-> includeEmpty ] ] :
        ref \in SemanticIds, addressCardinality \in {"ZeroToOne", "ZeroToMany"},
        streetCardinality \in {"One", "ZeroToOne"},
        vals \in ExportValues("ZeroToOne") \cup ExportValues("ZeroToMany"),
        includeEmpty \in BOOLEAN }

InitExport ==
    /\ FirstRender({EmptyMap})
    /\ input \in ExportInputs
    /\ output = NoCall

\* exportToSubmodel(parseSubmodelTemplate(submodel), values, options)
exportCall ==
    /\ input.op = "exportToSubmodel"
    /\ output = NoCall
    /\ output' = [ op |-> "exportToSubmodel",
                   document |-> exportToSubmodel(
                                  parseElementTree(input.submodel.submodelElements, <<>>),
                                  input.values, input.options),
                   warnings |-> exportWarnings(
                                  parseElementTree(input.submodel.submodelElements, <<>>),
                                  input.values, input.options) ]
    /\ UNCHANGED << controller, fetcher, input >>

\* importSubmodelValues of the exported document
importCall ==
    /\ output.op = "exportToSubmodel"
    /\ output' = [ op |-> "importSubmodelValues", document |-> output.document,
                   values |-> importSubmodelValues(output.document) ]
    /\ UNCHANGED << controller, fetcher, input >>

NextExport ==
    \/ exportCall
    \/ importCall

SpecExport == InitExport /\ [][NextExport]_vars

\* -------------------------------------------------------------- parse calls

B == <<"B">>

\* the sequences of at most MaxSiblings elements of a set
SiblingsOf(elements) ==
    UNION { [ 1..n -> elements ] : n \in 0..MaxSiblings }

\* Property nodes without a short-name and with one of two short-names
ParseProperties ==
    { Property(idShort, "xs:string", <<>>) : idShort \in { <<>>, A, B } }

\* templates of Property nodes and of collections of Property nodes, with
\* siblings that share a short-name or have none
ParseSubmodels ==
    { [ modelType |-> "Submodel", submodelElements |-> elements ] :
        elements \in SiblingsOf(ParseProperties
                                \cup { Collection(A, <<>>, children) :
                                         children \in SiblingsOf(ParseProperties) }) }

\* extractMetadata: the short name of the submodel
extractMetadata(submodel) ==
    [ idShort |-> Field(submodel, "idShort", <<"U", "n", "n", "a", "m", "e", "d">>) ]

InitParse ==
    /\ FirstRender({EmptyMap})
    /\ input \in { [ op |-> "parseSubmodelTemplate", submodel |-> submodel ] :
                      submodel \in ParseSubmodels }
    /\ output = NoCall

\* parseSubmodelTemplate(submodel): the ParsedTemplate it returns
parseCall ==
    /\ input.op = "parseSubmodelTemplate"
    /\ output = NoCall
    /\ output' = [ op |-> "parseSubmodelTemplate",
                   template |->
                     [ submodel     |-> input.submodel,
                       metadata     |-> extractMetadata(input.submodel),
                       elements     |-> parseElementTree(input.submodel.submodelElements, <<>>),
                       flatElements |-> parseSubmodelTemplate(input.submodel) ] ]
    /\ UNCHANGED << controller, fetcher, input >>

NextParse == parseCall

SpecParse == InitParse /\ [][NextParse]_vars

\* ----------------------------------------------------------- validate calls

MinQualifier(digits) == [ type |-> "SMT/Min", value |-> digits ]

MaxQualifier(digits) == [ type |-> "SMT/Max", value |-> digits ]

\* a template of one numeric Property with a declared minimum and maximum
RangeSubmodel(valueType, min, max) ==
    [ modelType |-> "Submodel",
      submodelElements |->
        << Property(Count, valueType,
                    << MinQualifier(String(min)), MaxQualifier(String(max)) >>) >> ]

\* the calls of validateValue: an integer or decimal element, and a number
\* below, at, between or above its limits, as a number or as typed text
ValidateInputs ==
    { [ op |-> "validateValue", valueType |-> valueType, min |-> min, max |-> max,
        num |-> num, value |-> value ] :
        valueType \in {"xs:integer", "xs:decimal"},
        min \in 0..MaxLimit, max \in 0..MaxLimit,
        num \in 0..(MaxLimit + 1), value \in {"number", "string"} }

InitValidateValue ==
    /\ FirstRender({EmptyMap})
    /\ input \in ValidateInputs
    /\ output = NoCall

\* validateValue(element, value) for the element as the parser gives it
validateValueCall ==
    /\ input.op = "validateValue"
    /\ output = NoCall
    /\ LET flatElements == parseSubmodelTemplate(
                              RangeSubmodel(input.valueType, input.min, input.max))
           value        == IF input.value = "number" THEN NumberValue(input.num)
                           ELSE StringValue(String(input.num))
       IN  output' = [ op |-> "validateValue",
                       error |-> validateValue(flatElements[Count], value) ]
    /\ UNCHANGED << controller, fetcher, input >>

NextValidateValue == validateValueCall

SpecValidateValue == InitValidateValue /\ [][NextValidateValue]_vars

\* ------------------------------------------------------------- mount effect

\* the initialValues props of the forms whose mount effect is looked at: none,
\* items of the optional list, items of the required list, items of both
MountInitialValues ==
    { EmptyMap,
      [ k \in { join(<<Tags, String(1)>>), join(<<Tags, String(10)>>) } |-> StringValue(A) ],
      [ k \in { join(<<Items, String(3)>>) } |-> StringValue(A) ],
      [ k \in { join(<<Items, String(0)>>), join(<<Items, String(2)>>),
                join(<<Tags, String(1)>>) } |-> StringValue(A) ] }

\* index lists as derived from values and as reordered
IndexLists == { <<>>, <<0>>, <<2>>, <<1, 5>>, <<5, 1>>, <<0, 1, 2>> }

\* the calls of ensureMinArrayItems: index lists of two paths and a minimum
\* for each
EnsureMinInputs ==
    { [ op |-> "ensureMinArrayItems",
        arrayItems |-> [ pk \in { join(<<Tags>>) } |-> tags ],
        minByPath |-> [ pk \in { join(<<Tags>>), join(<<Items>>) } |->
                          IF pk = join(<<Tags>>) THEN minTags ELSE minItems ] ] :
        tags \in IndexLists, minTags \in 0..MaxItems, minItems \in 0..MaxItems }

InitMount ==
    /\ FirstRender(MountInitialValues)
    /\ input \in EnsureMinInputs
    /\ output = NoCall

\* ensureMinArrayItems(arrayItems, minByPath)
ensureMinCall ==
    /\ input.op = "ensureMinArrayItems"
    /\ output = NoCall
    /\ output' = [ op |-> "ensureMinArrayItems",
                   arrayItems |-> ensureMinArrayItems(input.arrayItems, input.minByPath) ]
    /\ UNCHANGED << controller, fetcher, input >>

\* the mount effect, the operations that change the index lists after it, and
\* ensureMinArrayItems on its own
NextMount ==
    \/ EnsureMinEffect
    \/ \E path \in ArrayPaths : addArrayItem(path)
    \/ reset
    \/ ensureMinCall

SpecMount == InitMount /\ [][NextMount]_vars

\* ----------------------------------------------------------- reorder calls

\* the arguments of reorderArrayItem: positions in the list, one below and
\* one and more above it
ReorderInputs ==
    { [ op |-> "reorderArrayItem", path |-> <<Tags>>,
        fromPosition |-> fromPosition, toPosition |-> toPosition ] :
        fromPosition \in (-1)..MaxItems, toPosition \in (-1)..MaxItems }

InitReorder ==
    /\ FirstRender(InitialValuesChoices)
    /\ input \in ReorderInputs
    /\ output = NoCall

\* reorderArrayItem with the given arguments, on a form whose items have
\* errors and touched marks
NextReorder ==
    \/ EnsureMinEffect
    \/ \E path \in ItemFields(<<Tags>>) : setError(path, "Custom error")
    \/ \E path \in ItemFields(<<Tags>>) : setTouched(path)
    \/ reorderArrayItem(input.path, input.fromPosition, input.toPosition)

SpecReorder == InitReorder /\ [][NextReorder]_vars

\* ------------------------------------------------ forms of nested templates

\* a template with a repeatable text and a repeatable group with a required
\* child, both texts limited to one character, and an unlimited number
NestedSubmodel(addressCardinality) ==
    [ modelType |-> "Submodel",
      submodelElements |->
        << Property(Count, "xs:integer", <<>>),
           Property(Tags, "xs:string",
                    <<CardinalityQualifier("ZeroToMany"), MaxLengthQualifier(<<"1">>)>>),
           Collection(Address, <<CardinalityQualifier(addressCardinality)>>,
             << Property(Street, "xs:string",
                         <<CardinalityQualifier("One"), MaxLengthQualifier(<<"1">>)>>) >>) >> ]

\* the fields setValue is called on: two items of the repeatable text, the
\* child of an item of the repeatable group, and a single-occurrence field
SetValuePaths ==
    { <<Tags, String(0)>>, <<Tags, String(10)>>, <<Address, String(1), Street>>, <<Count>> }

InitSetValue ==
    /\ FirstRenderOf(NestedSubmodel("ZeroToMany"), {EmptyMap})
    /\ input = NoCall
    /\ output = NoCall

\* setValue on instance paths, with errors set from outside
NextSetValue ==
    \/ EnsureMinEffect
    \/ \E path \in SetValuePaths, value \in FieldValues : setValue(path, value)
    \/ \E path \in SetValuePaths : setError(path, "Custom error")

SpecSetValue == InitSetValue /\ [][NextSetValue]_vars

\* ------------------------------------------ export of unconvertible kinds

\* the element kinds the exporter has no converter for
UnsupportedKinds ==
    { "Operation", "Capability", "BasicEventElement", "RelationshipElement" }

\* an element of a kind without value type and children
Element(modelType, idShort, qualifiers) ==
    [ modelType |-> modelType, idShort |-> idShort, valueType |-> "",
      qualifiers |-> qualifiers, value |-> <<>> ]

\* a template with a number and an element of an unconvertible kind, at top
\* level or inside a group
KindSubmodel(modelType, cardinality, nested) ==
    LET element == Element(modelType, Tags, <<CardinalityQualifier(cardinality)>>)
    IN  [ modelType |-> "Submodel",
          submodelElements |->
            IF nested
            THEN << Property(Count, "xs:integer", <<>>),
                    Collection(Address, <<>>, <<element>>) >>
            ELSE << Property(Count, "xs:integer", <<>>), element >> ]

\* the value maps exported with these templates: none, a number, and an
\* entry at the path of the unconvertible element or at an index of it
KindValues ==
    { EmptyMap,
      [ k \in { join(<<Count>>) } |-> StringValue(<<"7">>) ],
      [ k \in { join(<<Tags>>), join(<<Address, Tags>>) } |-> StringValue(A) ],
      [ k \in { join(<<Tags, String(0)>>), join(<<Address, Tags, String(0)>>) } |->
          StringValue(A) ] }

InitExportKinds ==
    /\ FirstRender({EmptyMap})
    /\ input \in { [ op |-> "exportToSubmodel",
                      submodel |-> KindSubmodel(modelType, cardinality, nested),
                      values |-> vals, options |-> [ includeEmpty |-> includeEmpty ] ] :
                      modelType \in UnsupportedKinds,
                      cardinality \in {"One", "ZeroToOne", "OneToMany", "ZeroToMany"},
                      nested \in BOOLEAN, vals \in KindValues, includeEmpty \in BOOLEAN }
    /\ output = NoCall

SpecExportKinds == InitExportKinds /\ [][NextExport]_vars

\* ------------------------------------------------------- the template page

\* what the page loads from an existing submodel: nothing, and two items of
\* the repeatable element
PageInitialValues ==
    { EmptyMap,
      [ k \in { join(<<Tags, String(1)>>), join(<<Tags, String(2)>>) } |-> StringValue(A) ] }

\* the page renders the form with onChange={handleFormChange}; formValues
\* starts as the initialValues the page passes (both empty, or both the
\* imported values)
InitPage ==
    /\ FormOf(FormSubmodel, PageInitialValues)
    /\ onChange = TRUE
    /\ formValues = initialValues
    /\ ModuleLoaded
    /\ input = NoCall
    /\ output = NoCall

\* handleExportJSON: validate() of the form's actions, and unless it says
\* invalid, exportToSubmodel of the page's formValues
handleExportJSON ==
    /\ mounted
    /\ LET errs == validateErrors(template, closure.values, closure.arrayItems)
           tree == parseElementTree(FormSubmodel.submodelElements, <<>>)
           options == [ includeEmpty |-> FALSE ]
       IN  /\ errors' = errs
           /\ isValid' = (DOMAIN errs = {})
           /\ lastOp' = Op("handleExportJSON", <<>>, 0, DOMAIN errs = {})
           /\ output' = IF DOMAIN errs = {}
                        THEN [ op |-> "exportToSubmodel",
                               document |-> exportToSubmodel(tree, formValues, options),
                               warnings |-> exportWarnings(tree, formValues, options) ]
                        ELSE output
    /\ UNCHANGED << fetcher, template, initialValues, onChange, formValues, input, values, touched,
                    arrayItems, isDirty, isSubmitting, closure, mounted, pending, handed,
                    addCount, everLive >>

NextPage ==
    \/ EnsureMinEffect
    \/ Render
    \/ \E path \in ItemFields(<<Tags>>) \cup {<<SerialNumber>>} : setValue(path, StringValue(A))
    \/ \E position \in Positions(<<Tags>>) : removeArrayItem(<<Tags>>, position)
    \/ reset
    \/ handleExportJSON

SpecPage == InitPage /\ [][NextPage]_vars

\* ------------------------------------------- items of a repeatable group

InitNested ==
    /\ FirstRenderOf(NestedSubmodel("ZeroToMany"), {EmptyMap})
    /\ input = NoCall
    /\ output = NoCall

\* the items of the repeatable group are added, filled at the field rendered
\* for their required child, and removed; the form is validated
NextNested ==
    \/ EnsureMinEffect
    \/ Render
    \/ addArrayItem(<<Address>>)
    \/ \E item \in ItemFields(<<Address>>), value \in FieldValues :
         setValue(Append(item, Street), value)
    \/ \E position \in Positions(<<Address>>) : removeArrayItem(<<Address>>, position)
    \/ validate

SpecNested == InitNested /\ [][NextNested]_vars

\* ------------------------------------------------------- the rendered tree

\* INPUT_TYPE_TO_COMPONENT[inputType] || 'TextInput', for the input types of
\* the modelled templates
componentOf(inputType) ==
    CASE inputType \in {"number", "integer", "decimal"} -> "NumberInput"
      [] inputType = "boolean" -> "BooleanInput"
      [] inputType \in {"collection", "entity"} -> "SMCContainer"
      [] inputType = "list" -> "ArrayContainer"
      [] OTHER -> "TextInput"

isContainerType(inputType) == inputType \in {"collection", "list", "entity"}

\* a UINode: its component, props.path and children
UINode(component, path, children) ==
    [ component |-> component, path |-> path, children |-> children ]

RECURSIVE elementToNode(_)

\* createNode: a container with its children's nodes, wrapped in an
\* ArrayContainer of the same path when it is repeatable; a leaf otherwise
createNode(element) ==
    LET component == componentOf(element.inputType)
        children  == [ i \in 1..Len(element.children) |-> elementToNode(element.children[i]) ]
    IN  IF isContainerType(element.inputType)
        THEN (IF element.isArray
              THEN UINode("ArrayContainer", element.path,
                          << UINode(component, element.path, children) >>)
              ELSE UINode(component, element.path, children))
        ELSE UINode(component, element.path, <<>>)

\* createArrayWrapper: an ArrayContainer over the node of the element taken
\* as a single occurrence
createArrayWrapper(element) ==
    UINode("ArrayContainer", element.path, << createNode([ element EXCEPT !.isArray = FALSE ]) >>)

elementToNode(element) ==
    IF element.isArray /\ ~isContainerType(element.inputType)
    THEN createArrayWrapper(element)
    ELSE createNode(element)

\* generateUITree(template).root
generateUITree(elements) ==
    UINode("FormSection", <<>>, [ i \in 1..Len(elements) |-> elementToNode(elements[i]) ])

\* applyArrayIndex: the index segment is put after arrayPath in the path of
\* the node and of every node beneath it whose path begins with arrayPath
RECURSIVE applyArrayIndex(_, _, _)
applyArrayIndex(node, arrayPath, index) ==
    LET nodePath == node.path
        nextPath == IF /\ Len(nodePath) >= Len(arrayPath)
                       /\ join(SubSeq(nodePath, 1, Len(arrayPath))) = join(arrayPath)
                    THEN arrayPath \o << String(index) >>
                           \o SubSeq(nodePath, Len(arrayPath) + 1, Len(nodePath))
                    ELSE nodePath
    IN  UINode(node.component, nextPath,
               [ i \in 1..Len(node.children) |->
                   applyArrayIndex(node.children[i], arrayPath, index) ])

\* renderNode: the nodes that are rendered for the index sets, each with the
\* path its handlers are bound to.  An ArrayContainer renders its first child
\* once per index of its own path key
RECURSIVE renderNode(_, _)
renderNode(node, items) ==
    {node} \cup
    IF node.component = "ArrayContainer"
    THEN (IF node.children = <<>> THEN {}
          ELSE UNION { renderNode(applyArrayIndex(node.children[1], node.path, index), items) :
                         index \in Range(ItemsAt(items, pathToKey(node.path))) })
    ELSE UNION { renderNode(node.children[i], items) : i \in 1..Len(node.children) }

\* the paths of the input fields on screen: onChange of a rendered input
\* component is setValue(path, value)
RenderedFields(node, items) ==
    { n.path : n \in { r \in renderNode(node, items) :
                         r.component \notin {"FormSection", "SMCContainer", "ArrayContainer"} } }

\* the paths of the array containers on screen: onAdd is addArrayItem(path)
RenderedArrays(node, items) ==
    { n.path : n \in { r \in renderNode(node, items) : r.component = "ArrayContainer" } }

\* a template with a repeatable text, a repeatable group and an ordered list
\* of the given cardinality
RenderSubmodel(listCardinality) ==
    [ modelType |-> "Submodel",
      submodelElements |->
        << Property(Tags, "xs:string", <<CardinalityQualifier("ZeroToMany")>>),
           Collection(Address, <<CardinalityQualifier("ZeroToMany")>>,
             << Property(Street, "xs:string", <<>>) >>),
           List(Measurements, "Property", "xs:string",
                <<CardinalityQualifier(listCardinality)>>,
                << Property(Measurement, "xs:string", <<>>) >>) >> ]

\* the form of a template is rendered; input holds the submodel prop
InitRender ==
    \E listCardinality \in {"ZeroToOne", "ZeroToMany", "OneToMany"} :
      /\ FirstRenderOf(RenderSubmodel(listCardinality), {EmptyMap})
      /\ input = [ op |-> "render", submodel |-> RenderSubmodel(listCardinality) ]
      /\ output = NoCall

\* uiTree.root of the rendered form
uiTree == generateUITree(parseElementTree(input.submodel.submodelElements, <<>>))

\* the user adds items through the array containers on screen and types into
\* the input fields on screen
NextRender ==
    \/ EnsureMinEffect
    \/ \E path \in RenderedArrays(uiTree, arrayItems) : addArrayItem(path)
    \/ \E path \in RenderedFields(uiTree, arrayItems) : setValue(path, StringValue(A))

SpecRender == InitRender /\ [][NextRender]_vars

\* ------------------------------------------------------ the template catalog

\* the catalog entries built in and those the remote catalog adds, by id
IDTA_TEMPLATES == { "digital-nameplate", "bill-of-material" }
RemoteTemplates == { "bill-of-material", "remote-template" }

\* a cached or returned list of catalog entries
ListOf(entries) == [ isNull |-> FALSE, entries |-> entries ]

\* what the fetch of the remote catalog ends with: the remote entries, or an
\* error
FetchOutcomes == {"fulfilled", "rejected"}

\* listTemplates(): the cached list when there is one, else the promise in
\* flight when there is one, else the promise of a fetch it starts
listTemplates ==
    /\ Len(returned) < MaxCalls
    /\ IF ~templateListCache.value.isNull
       THEN /\ returned' = Append(returned, [ promise |-> NoPromise,
                                              list |-> templateListCache.value ])
            /\ UNCHANGED << templateListCache, promises >>
       ELSE IF templateListCache.inflight # NoPromise
       THEN /\ returned' = Append(returned, [ promise |-> templateListCache.inflight,
                                              list |-> NoList ])
            /\ UNCHANGED << templateListCache, promises >>
       ELSE /\ Len(promises) < MaxFetches
            /\ promises' = Append(promises, [ state |-> "pending", list |-> NoList ])
            /\ templateListCache' = [ templateListCache EXCEPT !.inflight = Len(promises) + 1 ]
            /\ returned' = Append(returned, [ promise |-> Len(promises) + 1, list |-> NoList ])
    /\ UNCHANGED << controller, input, output >>

\* the rest of the async function of promise p once its fetch has ended: the
\* merged list or, after an error, the built-in list is cached and returned,
\* and the finally block clears templateListCache.inflight
fetchSettles(p, outcome) ==
    /\ promises[p].state = "pending"
    /\ LET merged == ListOf(IDTA_TEMPLATES \cup RemoteTemplates)
           list   == IF outcome = "fulfilled" THEN merged ELSE ListOf(IDTA_TEMPLATES)
       IN  /\ templateListCache' = [ value |-> list, inflight |-> NoPromise ]
           /\ promises' = [ promises EXCEPT ![p] = [ state |-> "fulfilled", list |-> list ] ]
    /\ UNCHANGED << controller, returned, input, output >>

clearTemplateCache ==
    /\ templateListCache' = [ value |-> NoList, inflight |-> NoPromise ]
    /\ UNCHANGED << controller, promises, returned, input, output >>

InitFetch ==
    /\ FirstRender({EmptyMap})
    /\ input = NoCall
    /\ output = NoCall

NextFetch ==
    \/ listTemplates
    \/ \E p \in 1..Len(promises), outcome \in FetchOutcomes : fetchSettles(p, outcome)
    \/ clearTemplateCache

SpecFetch == InitFetch /\ [][NextFetch]_vars

\* ------------------------------------------------------------------- claims

\* the indices that were ever in the list of a path
EverLiveAt(pathKey) == IF Has(everLive, pathKey) THEN everLive[pathKey] ELSE {}

\* key is the key path.index or lies below it (starts with "path.index.")
AddressedTo(key, pathKey, index) ==
    LET itemKey == pathKey \o <<".">> \o String(index)
    IN  key = itemKey \/ startsWith(key, itemKey \o <<".">>)

\* every entry of map that is not addressed to the removed item is in after, unchanged
KeepsOthers(map, after, pathKey, index) ==
    \A k \in DOMAIN map :
        ~AddressedTo(k, pathKey, index) => (k \in DOMAIN after /\ after[k] = map[k])

NoneAddressedTo(map, pathKey, index) ==
    \A k \in DOMAIN map : ~AddressedTo(k, pathKey, index)

\* C1: addArrayItem never yields an index that was in the list of its path at
\* any earlier point of the session, removed indices included.
C1_AddNeverReusesIndex ==
    [][ addCount' # addCount => lastOp'.index \notin EverLiveAt(lastOp'.key) ]_vars

\* C2: a removeArrayItem with a valid position leaves unchanged every values,
\* errors and touched entry addressed to another index of the path (also an
\* index whose decimal text begins with the removed index) or to another path.
C2_RemoveKeepsOtherEntries ==
    [][ (lastOp'.op = "removeArrayItem" /\ lastOp'.result)
        => /\ KeepsOthers(values, values', lastOp'.key, lastOp'.index)
           /\ KeepsOthers(errors, errors', lastOp'.key, lastOp'.index)
           /\ KeepsOthers(touched, touched', lastOp'.key, lastOp'.index) ]_vars

\* C3: in the state a removeArrayItem with a valid position produces, no key
\* of values, errors or touched equals path.<removedIndex> or starts with
\* path.<removedIndex>. and the removed index is not in the list of the path.
C3_RemovePurgesItem ==
    (lastOp.op = "removeArrayItem" /\ lastOp.result)
    => /\ NoneAddressedTo(values, lastOp.key, lastOp.index)
       /\ NoneAddressedTo(errors, lastOp.key, lastOp.index)
       /\ NoneAddressedTo(touched, lastOp.key, lastOp.index)
       /\ lastOp.index \notin Range(ItemsAt(arrayItems, lastOp.key))

\* a removal of an item that had a key below it, which purged an entry from
\* each of the three maps and left entries of another item behind
C3_Witness ==
    /\ lastOp.op = "removeArrayItem"
    /\ lastOp.result
    /\ lastOp.purged = {"values", "errors", "touched"}
    /\ \E k \in DOMAIN initialValues :
         startsWith(k, lastOp.key \o <<".">> \o String(lastOp.index) \o <<".">>)
    /\ \E k \in DOMAIN values : startsWith(k, lastOp.key \o <<".">>)

\* C4: the indices listed under each path are pairwise distinct in every
\* reachable state.
C4_IndicesDistinct ==
    \A pk \in DOMAIN arrayItems :
        \A i, j \in 1..Len(arrayItems[pk]) :
            i # j => arrayItems[pk][i] # arrayItems[pk][j]

\* a list derived from initial values that was added to after a removal and
\* reordered
C4_Witness ==
    /\ addCount > 0
    /\ lastOp.op = "reorderArrayItem"
    /\ \E pk \in DOMAIN arrayItems :
         /\ Len(arrayItems[pk]) >= 3
         /\ arrayItems[pk][1] > arrayItems[pk][2]
         /\ Range(arrayItems[pk]) # EverLiveAt(pk)
         /\ pk \in DOMAIN deriveArrayItems(initialValues)

\* the error map validateAll reports for the form as it is
FormErrors == validateErrors(template, values, arrayItems)

\* C5: a submit() call on a form in which a stored value fails its rule or a
\* required element is unsatisfied ends without a call of the submit handler.
C5_InvalidFormNotSubmitted ==
    (lastOp.op = "submit" /\ lastOp.result) => DOMAIN FormErrors = {}

\* C6: the value map a valid submit() hands to the submit handler is the
\* value map of the controller at the moment submit was called.
C6_SubmitHandsCurrentValues ==
    (lastOp.op = "submit" /\ lastOp.result) => handed = values

\* C7: every submit() call leaves the submitting flag false: at once when
\* validateAll fails, and when its handler eventually resolves or rejects.
C7_SubmitClearsFlag ==
    /\ []((lastOp.op = "submit" /\ ~lastOp.result) => ~isSubmitting)
    /\ \A s \in Slots :
         pending[s] ~> ( /\ ~pending[s]
                         /\ lastOp.op \in {"resolved", "rejected"}
                         /\ lastOp.index = s
                         /\ ~isSubmitting )

\* the handler of a submit call rejected and the flag is cleared
C7_Witness ==
    /\ lastOp.op = "rejected"
    /\ ~isSubmitting
    /\ \A s \in Slots : ~pending[s]

\* C8: while the handler of a valid submit() is in flight the submitting flag
\* is true, whatever operations are interleaved.
C8_SubmittingWhileInFlight ==
    (\E s \in Slots : pending[s]) => isSubmitting

\* C9: validateAll() called twice with no mutation in between produces the
\* same error map and the same result both times.
C9_ValidateIdempotent ==
    [][ (lastOp.op = "validate" /\ lastOp'.op = "validate")
        => (errors' = errors /\ lastOp'.result = lastOp.result) ]_vars

\* the form holds no value
WithoutValues == DOMAIN values = {}

\* single-occurrence scalar elements that are required
RequiredScalars ==
    { pk \in DOMAIN template :
        /\ template[pk].isRequired
        /\ ~template[pk].isArray
        /\ template[pk].inputType \notin {"list", "collection", "entity"} }

ZeroToManyElements == { pk \in DOMAIN template : template[pk].cardinality = "ZeroToMany" }

\* C10: validateAll() on a form without values puts a required error at the
\* path of every required single-occurrence scalar and none at the path of a
\* Zero-or-Many element; a setValue of a non-empty value that passes the
\* element's rule leaves no error at the element's path.
C10_RequiredErrorsOnEmptyForm ==
    /\ (lastOp.op = "validate" /\ WithoutValues)
       => /\ \A pk \in RequiredScalars :
               Has(errors, pk) /\ errors[pk] = "This field is required"
          /\ \A pk \in ZeroToManyElements : ~Has(errors, pk)
    /\ (lastOp.op = "setValue" /\ lastOp.result /\ Has(template, lastOp.key))
       => ~Has(errors, lastOp.key)

\* C11: reset() after any sequence of operations sets values to the initial
\* values given at mount, the index lists to those derived from the initial
\* values, errors and touched to empty maps and the dirty flag to false.
C11_ResetRestoresInitialState ==
    lastOp.op = "reset"
    => /\ values = initialValues
       /\ arrayItems = deriveArrayItems(initialValues)
       /\ errors = EmptyMap
       /\ touched = EmptyMap
       /\ ~isDirty

\* a reset of a form mounted with values, after the mount effect had padded a
\* list that the initial values do not give
C11_Witness ==
    /\ lastOp.op = "reset"
    /\ DOMAIN initialValues # {}
    /\ \E pk \in DOMAIN everLive : ~Has(arrayItems, pk)

\* key addresses a Property of the template: an index segment follows every
\* repeatable element and every list on its way, and nothing else
AddressesProperty(flatElements, key) ==
    LET segments    == split(key)
        stripped(i) == join(stripNumericSegments(SubSeq(segments, 1, i)))
        repeats(i)  == /\ ~isNumericSegment(segments[i])
                       /\ Has(flatElements, stripped(i))
                       /\ \/ flatElements[stripped(i)].isArray
                          \/ flatElements[stripped(i)].modelType = "SubmodelElementList"
    IN  /\ Has(flatElements, stripped(Len(segments)))
        /\ flatElements[stripped(Len(segments))].modelType = "Property"
        /\ ~repeats(Len(segments))
        /\ \A i \in 1..Len(segments) :
             isNumericSegment(segments[i]) <=> (i > 1 /\ repeats(i - 1))

\* equal up to the coercion of a numeric text to a number
ValueEquivalent(v, w) ==
    \/ v = w
    \/ /\ v.type = "string"
       /\ w.type = "number"
       /\ isNumericSegment(v.value)
       /\ Number(v.value) = w.value

\* C12: importing the document that export produced from V yields a value map
\* that holds, under the same key, every non-empty scalar entry of V that
\* addresses a Property of the template, up to type coercion.
C12_ExportImportRoundTrip ==
    output.op = "importSubmodelValues"
    => \A key \in DOMAIN input.values :
         ( /\ AddressesProperty(parseSubmodelTemplate(input.submodel), key)
           /\ ~isEmpty(input.values[key]) )
         => /\ Has(output.values, key)
            /\ ValueEquivalent(input.values[key], output.values[key])

\* template.elements of the form's template
FormTree == parseElementTree(FormSubmodel.submodelElements, <<>>)

\* the values of the items of the list that exporting vals yields for the
\* repeatable element at pathKey, in order; none when the list is left out
ExportedItemValues(vals, pathKey) ==
    LET document == exportToSubmodel(FormTree, vals, [ includeEmpty |-> FALSE ])
        lists    == SelectSeq(document, LAMBDA el : el.idShort = pathKey)
    IN  IF lists = <<>> THEN <<>>
        ELSE [ i \in 1..Len(lists[1].value) |-> lists[1].value[i].value ]

\* the values vals holds for the indices of items[pathKey], by ascending index
HeldItemValues(vals, items, pathKey) ==
    LET itemKey(index) == pathKey \o <<".">> \o String(index)
        holding == SortAscending({ index \in Range(ItemsAt(items, pathKey)) :
                                     ~isEmpty(Lookup(vals, itemKey(index))) })
    IN  [ i \in 1..Len(holding) |-> vals[itemKey(holding[i])] ]

\* C13: exporting the controller's values yields for a repeatable element one
\* item per live index that holds a value; after a removeArrayItem the list
\* has the items of all remaining indices with the values they held, and none
\* for the removed index.
C13_ExportFollowsLiveIndices ==
    [][ /\ \A path \in ArrayPaths :
             ExportedItemValues(values', join(path)) =
                 HeldItemValues(values', arrayItems', join(path))
        /\ (lastOp'.op = "removeArrayItem" /\ lastOp'.result)
           => ExportedItemValues(values', lastOp'.key) =
                  HeldItemValues(values, arrayItems', lastOp'.key) ]_vars


\* the integer indices that occur as the segment right after path in a key of vals
IndicesUnder(vals, path) ==
    { Number(split(key)[Len(path) + 1]) :
        key \in { k \in DOMAIN vals :
                    /\ Len(split(k)) > Len(path)
                    /\ SubSeq(split(k), 1, Len(path)) = path
                    /\ isNumericSegment(split(k)[Len(path) + 1]) } }

\* the entries of vals at and below path.index, with the index segment taken out
ScopedTo(vals, path, index) ==
    LET under == { k \in DOMAIN vals :
                     /\ Len(split(k)) > Len(path)
                     /\ SubSeq(split(k), 1, Len(path)) = path
                     /\ split(k)[Len(path) + 1] = String(index) }
        scoped(k) == join(path \o SubSeq(split(k), Len(path) + 2, Len(split(k))))
    IN  [ sk \in { scoped(k) : k \in under } |-> vals[CHOOSE k \in under : scoped(k) = sk] ]

\* the elements of the template that export as a list
ListElements(tree) ==
    { i \in 1..Len(tree) : tree[i].isArray \/ tree[i].modelType = "SubmodelElementList" }

\* what one item of the list is converted from
ItemTemplate(element) ==
    IF element.modelType = "SubmodelElementList"
    THEN [ element.children[1] EXCEPT !.isArray = FALSE ]
    ELSE [ element EXCEPT !.isArray = FALSE ]

\* the single-item conversions for the indices under the element, ascending
ItemConversions(element, vals, options) ==
    LET indices == SortAscending(IndicesUnder(vals, element.path))
    IN  [ i \in 1..Len(indices) |->
            convertElement(ItemTemplate(element), ScopedTo(vals, element.path, indices[i]),
                           options) ]

\* the items of the list exported under idShort; none when there is no such list
ExportedList(document, idShort) ==
    LET lists == SelectSeq(document, LAMBDA el : el.idShort = idShort)
    IN  IF lists = <<>> THEN <<>> ELSE lists[1].value

\* C14 as stated: the exported list has one item per distinct integer index
\* that occurs right after the element's path in a key of the value map, in
\* ascending order, each converted from the values scoped to its index.
C14_OneItemPerIndex ==
    output.op = "exportToSubmodel"
    => LET tree == parseElementTree(input.submodel.submodelElements, <<>>)
       IN  \A e \in ListElements(tree) :
             ExportedList(output.document, tree[e].idShort) =
                 ItemConversions(tree[e], input.values, input.options)

\* C14, amended: the exported list holds, in ascending index order, the item
\* converted from the values scoped to each such index, except the indices
\* whose conversion is left out as empty; a repeatable element with no item
\* from an index and a value under its own path has one item, from that value.
\* Keys of paths that only share a textual prefix contribute no index.
C14_ItemsOfIndicesNotLeftOut ==
    output.op = "exportToSubmodel"
    => LET tree == parseElementTree(input.submodel.submodelElements, <<>>)
       IN  \A e \in ListElements(tree) :
             LET indexed == NotNull(ItemConversions(tree[e], input.values, input.options))
                 direct  == /\ indexed = <<>>
                            /\ tree[e].modelType # "SubmodelElementList"
                            /\ Has(input.values, tree[e].pathString)
             IN  ExportedList(output.document, tree[e].idShort) =
                     IF direct
                     THEN NotNull(<< convertElement(ItemTemplate(tree[e]), input.values,
                                                    input.options) >>)
                     ELSE indexed

\* an export of values with two indices of Tags, one of them holding the empty
\* text, and of values with a key of a path whose text begins with Tags
C14_Witness ==
    /\ output.op = "exportToSubmodel"
    /\ \/ /\ DOMAIN input.values = { join(<<Tags, String(1)>>), join(<<Tags, String(2)>>) }
          /\ ~input.options.includeEmpty
          /\ Len(ExportedList(output.document, Tags)) = 1
       \/ /\ DOMAIN input.values = { join(<<Tags, String(2)>>), join(<<TagsLike, String(5)>>) }
          /\ Len(ExportedList(output.document, Tags)) = 1


\* the exported element at a path of short-names, Null when there is none
RECURSIVE ExportedAt(_, _)
ExportedAt(elements, path) ==
    LET named == SelectSeq(elements, LAMBDA el : el.idShort = path[1])
    IN  IF named = <<>> THEN Null
        ELSE IF Len(path) = 1 THEN named[1]
        ELSE IF named[1].modelType = "SubmodelElementCollection"
        THEN ExportedAt(named[1].value, Tail(path))
        ELSE Null

\* neither the element nor a group above it is repeatable or a list item
OccursOnce(flatElements, element) ==
    \A i \in 1..Len(element.path) :
        LET above == flatElements[join(SubSeq(element.path, 1, i))]
        IN  /\ ~above.isArray
            /\ i < Len(element.path) => above.modelType # "SubmodelElementList"

\* the element exports as a group: a collection, a list or a repeatable element
IsGrouping(element) ==
    \/ element.isArray
    \/ element.modelType \in {"SubmodelElementCollection", "SubmodelElementList"}

C16_SemanticIdCopiedThrough ==
    output.op = "exportToSubmodel"
    => \A i \in 1..Len(input.submodel.submodelElements) :
         LET element  == input.submodel.submodelElements[i]
             exported == ExportedAt(output.document, <<element.idShort>>)
         IN  ("semanticId" \in DOMAIN element /\ exported # Null)
             => exported.semanticId = element.semanticId


\* the elements of a parsed tree, parents before children
RECURSIVE TreeElements(_)
TreeElements(elements) ==
    IF elements = <<>> THEN <<>>
    ELSE <<elements[1]>> \o TreeElements(elements[1].children)
         \o TreeElements(Tail(elements))

\* every element's path is the parent's path followed by its short-name
RECURSIVE PathsFollowParents(_, _)
PathsFollowParents(elements, parentPath) ==
    \A i \in 1..Len(elements) :
        /\ elements[i].path = Append(parentPath, elements[i].idShort)
        /\ PathsFollowParents(elements[i].children, elements[i].path)

\* C17: in every parsed template each element's path is its parent's path
\* followed by its own short-name, no two elements of the tree have the same
\* path, and the flat map has exactly one entry per element of the tree.
C17_PathsUniqueAcrossTree ==
    output.op = "parseSubmodelTemplate"
    => LET all == TreeElements(output.template.elements)
       IN  /\ PathsFollowParents(output.template.elements, <<>>)
           /\ \A i, j \in 1..Len(all) : i # j => all[i].path # all[j].path
           /\ Cardinality(DOMAIN output.template.flatElements) = Len(all)

\* the nodes of a template, parents before children
RECURSIVE TemplateNodes(_)
TemplateNodes(elements) ==
    IF elements = <<>> THEN <<>>
    ELSE <<elements[1]>>
         \o (IF elements[1].modelType = "SubmodelElementCollection"
             THEN TemplateNodes(elements[1].value) ELSE <<>>)
         \o TemplateNodes(Tail(elements))

\* the issues of a parse result: whichever of these fields it has
IssuesOf(parsedTemplate) ==
    Field(parsedTemplate, "issues", <<>>) \o Field(parsedTemplate, "warnings", <<>>)

\* C18: parsing a template in which a node has no short-name completes, gives
\* the node a placeholder name and records a warning-class issue in the result.
C18_MissingShortNameRecorded ==
    ( /\ input.op = "parseSubmodelTemplate"
      /\ \E i \in 1..Len(TemplateNodes(input.submodel.submodelElements)) :
           TemplateNodes(input.submodel.submodelElements)[i].idShort = <<>> )
    => /\ ENABLED parseCall \/ output.op = "parseSubmodelTemplate"
       /\ output.op = "parseSubmodelTemplate"
          => /\ \A i \in 1..Len(TreeElements(output.template.elements)) :
                  TreeElements(output.template.elements)[i].idShort # <<>>
             /\ IssuesOf(output.template) # <<>>


RequiredMinimum ==
    [ pk \in { k \in DOMAIN template : template[k].isArray } |->
        IF template[pk].isRequired THEN 1 ELSE 0 ]

\* after is before padded to the minimums: every list reaches its minimum, the
\* indices of before stay in place and order, each appended index is one more
\* than the largest index before it (0 in an empty list), a list that met its
\* minimum and every other path is unchanged, and padding after again changes
\* nothing
PaddedToMinimum(before, after, minByPath) ==
    /\ DOMAIN before \subseteq DOMAIN after
    /\ \A pk \in DOMAIN after :
         LET old  == ItemsAt(before, pk)
             new  == after[pk]
             most == IF Has(minByPath, pk) THEN minByPath[pk] ELSE 0
         IN  /\ Len(new) >= most
             /\ Len(new) >= Len(old)
             /\ SubSeq(new, 1, Len(old)) = old
             /\ \A i \in (Len(old) + 1)..Len(new) :
                  new[i] = IF i = 1 THEN 0
                           ELSE Max({ new[j] : j \in 1..(i - 1) }) + 1
             /\ Len(old) >= most => (Has(before, pk) /\ new = old)
    /\ \A pk \in DOMAIN minByPath : Len(ItemsAt(after, pk)) >= minByPath[pk]
    /\ ensureMinArrayItems(after, minByPath) = after

\* C20: the mount effect pads the index list of every required repeatable
\* element to at least one index, appends only next-available indices, keeps
\* the indices derived from the initial values in place and order and leaves
\* a path that meets its minimum unchanged; applying ensureMinimum again
\* changes nothing.  The same for ensureMinimum with any minimums.
C20_EnsureMinimumPads ==
    /\ [][ (~mounted /\ mounted')
           => /\ PaddedToMinimum(arrayItems, arrayItems', RequiredMinimum)
              /\ arrayItems = deriveArrayItems(initialValues) ]_vars
    /\ [](output.op = "ensureMinArrayItems"
          => PaddedToMinimum(input.arrayItems, output.arrayItems, input.minByPath))

\* a form mounted with items of the optional list only, whose required list
\* was padded with index 0, and a list <<5, 1>> padded to three indices
C20_Witness ==
    /\ mounted
    /\ addCount = 0
    /\ lastOp.op = "mount"
    /\ Has(initialValues, join(<<Tags, String(10)>>))
    /\ arrayItems = [ pk \in { join(<<Tags>>), join(<<Items>>) } |->
                        IF pk = join(<<Tags>>) THEN <<1, 10>> ELSE <<0>> ]
    /\ output.op = "ensureMinArrayItems"
    /\ input.arrayItems[join(<<Tags>>)] = <<5, 1>>
    /\ output.arrayItems[join(<<Tags>>)] = <<5, 1, 6>>


\* s without the entry at a position counted from 0
Without(s, position) ==
    [ i \in 1..(Len(s) - 1) |-> IF i <= position THEN s[i] ELSE s[i + 1] ]

\* C21: a reorder with both positions in bounds yields a list of the same
\* indices in which the entry formerly at position from stands at position to
\* and the others keep their relative order; with a position out of bounds
\* the index sets are unchanged.  reorderArrayItem never changes values,
\* errors or touched.
C21_ReorderMovesOneEntry ==
    [][ lastOp'.op = "reorderArrayItem"
        => LET pathKey == pathToKey(input.path)
               old     == ItemsAt(arrayItems, pathKey)
               new     == ItemsAt(arrayItems', pathKey)
               from    == input.fromPosition
               to      == input.toPosition
           IN  /\ values' = values
               /\ errors' = errors
               /\ touched' = touched
               /\ IF from \in 0..(Len(old) - 1) /\ to \in 0..(Len(old) - 1)
                  THEN /\ Len(new) = Len(old)
                       /\ Range(new) = Range(old)
                       /\ new[to + 1] = old[from + 1]
                       /\ Without(new, to) = Without(old, from)
                       /\ \A pk \in DOMAIN arrayItems :
                            pk # pathKey => ItemsAt(arrayItems', pk) = arrayItems[pk]
                  ELSE arrayItems' = arrayItems ]_vars

\* the first of three items was moved to the end, on a form with values,
\* errors and touched marks
C21_Witness ==
    /\ lastOp.op = "reorderArrayItem"
    /\ input.fromPosition = 0
    /\ input.toPosition = 2
    /\ ItemsAt(arrayItems, join(<<Tags>>)) = <<2, 12, 1>>
    /\ DOMAIN values # {}
    /\ DOMAIN errors # {}
    /\ DOMAIN touched # {}


\* the key without its index segments
WithoutIndexSegments(key) ==
    LET segments == split(key)
        kept     == { i \in 1..Len(segments) : ~(\A c \in Range(segments[i]) : isDigit(c)) }
        RECURSIVE Joined(_)
        Joined(i) == IF i > Len(segments) THEN <<>>
                     ELSE IF i \in kept
                     THEN (IF \E j \in kept : j < i THEN <<".">> ELSE <<>>)
                          \o segments[i] \o Joined(i + 1)
                     ELSE Joined(i + 1)
    IN  Joined(1)

\* every entry of before except the one at key is in after, and after has no
\* other entry besides the one at key
SameExceptAt(before, after, key) ==
    /\ DOMAIN before \ {key} = DOMAIN after \ {key}
    /\ \A k \in DOMAIN before \ {key} : after[k] = before[k]

\* C22: setValue(path, v) on an instance path of a repeated field validates v
\* with the rule of the template element at the path without its index
\* segments, stores the error under the instance key or deletes that key when
\* v passes, sets dirty, and leaves every other entry of values and errors
\* unchanged.
C22_SetValueOnInstancePath ==
    [][ (lastOp'.op = "setValue" /\ WithoutIndexSegments(lastOp'.key) # lastOp'.key)
        => LET key   == lastOp'.key
               rule  == template[WithoutIndexSegments(key)]
               error == validateValue(rule, values'[key])
           IN  /\ Has(values', key)
               /\ SameExceptAt(values, values', key)
               /\ SameExceptAt(errors, errors', key)
               /\ IF error = undefined THEN ~Has(errors', key)
                  ELSE Has(errors', key) /\ errors'[key] = error
               /\ isDirty' ]_vars

\* a too long text was set at the child of a group item, whose error stands
\* beside the error of another field, a third field holding a value without error
C22_Witness ==
    /\ lastOp.op = "setValue"
    /\ lastOp.key = join(<<Address, String(1), Street>>)
    /\ Has(errors, lastOp.key)
    /\ errors[lastOp.key] = "Maximum length"
    /\ Has(errors, join(<<Tags, String(10)>>))
    /\ ~Has(errors, join(<<Tags, String(0)>>))
    /\ Has(values, join(<<Tags, String(0)>>))


\* C23: for every template element of a kind export cannot convert, the
\* returned warnings name the element, the document does not hold it, and
\* the document is returned.
C23_UnsupportedKindWarned ==
    output.op = "exportToSubmodel"
    => LET tree == TreeElements(parseElementTree(input.submodel.submodelElements, <<>>))
       IN  \A i \in 1..Len(tree) :
             tree[i].modelType \in UnsupportedKinds
             => /\ \E w \in 1..Len(output.warnings) :
                     output.warnings[w].pathKey = tree[i].pathString
                /\ ExportedAt(output.document, tree[i].path) = Null


\* C24: in every reachable state of the form controller the overall-valid
\* flag is true exactly when the error map is empty.
C24_ValidIffNoErrors ==
    isValid <=> (DOMAIN errors = {})



\* C25: after every controller operation that changes the value map (setValue,
\* removeArrayItem, reset) the value map the page keeps from onChange equals
\* the controller's value map, and a document the page exports is the export
\* of the controller's value map
C25_PageValuesFollowController ==
    /\ (mounted /\ lastOp.op \in {"setValue", "removeArrayItem", "reset"})
         => formValues = values
    /\ (mounted /\ lastOp.op = "handleExportJSON" /\ lastOp.result)
         => output.document = exportToSubmodel(FormTree, values, [ includeEmpty |-> FALSE ])

\* C26: whenever validate finds no error for the value map and the index
\* sets, the document exported from that value map holds at least one list
\* item for every required repeatable element and a non-empty value for every
\* required leaf element.
C26_ValidFormExportsRequired ==
    (mounted /\ validateErrors(template, values, arrayItems) = EmptyMap)
    => LET document == exportToSubmodel(FormTree, values, [ includeEmpty |-> FALSE ])
       IN  \A i \in 1..Len(FormTree) :
             LET element == FormTree[i]
             IN  element.isRequired
                 => IF element.isArray
                    THEN Len(ExportedList(document, element.idShort)) >= 1
                    ELSE /\ ExportedAt(document, <<element.idShort>>) # Null
                         /\ ExportedAt(document, <<element.idShort>>).value # <<>>

\* C27: for the required leaf nested in the repeatable group, validate reports
\* no required error when every live item of the group holds a non-empty valid
\* value at the leaf's indexed path, and none when the optional group has no
\* live item.
C27_NestedRequiredLeafSatisfied ==
    mounted
    => LET leaf == template[join(<<Address, Street>>)]
           key(index) == join(<<Address, String(index), Street>>)
       IN  (\A index \in Range(ItemsAt(arrayItems, join(<<Address>>))) :
              /\ ~isEmptyValue(Lookup(values, key(index)))
              /\ validateValue(leaf, values[key(index)]) = undefined)
           => ~Has(validateErrors(template, values, arrayItems), leaf.pathString)

\* the number of properties with a non-empty value in exported elements
RECURSIVE ExportedValueCount(_)
ExportedValueCount(elements) ==
    IF elements = <<>> THEN 0
    ELSE (IF elements[1].modelType = "Property"
          THEN (IF isEmpty(elements[1].value) THEN 0 ELSE 1)
          ELSE ExportedValueCount(elements[1].value))
         + ExportedValueCount(Tail(elements))

\* C28: every non-empty value entered at a field rendered beneath array
\* containers appears in the exported document: the export of the value map
\* holds as many non-empty properties as the map holds non-empty values.
C28_RenderedKeysExported ==
    mounted
    => ExportedValueCount(exportToSubmodel(
           parseElementTree(input.submodel.submodelElements, <<>>), values,
           [ includeEmpty |-> FALSE ]))
       = Cardinality({ key \in DOMAIN values : ~isEmpty(values[key]) })

\* C29: after reset() every required repeatable element has at least one
\* live index, and the index lists are those the form had right after the
\* minimum-item padding done at mount.
C29_ResetKeepsMinimumItems ==
    (mounted /\ lastOp.op = "reset")
    => LET arrays    == { pk \in DOMAIN template : template[pk].isArray }
           minByPath == [ pk \in arrays |-> IF template[pk].isRequired THEN 1 ELSE 0 ]
       IN  /\ \A pk \in arrays :
                template[pk].isRequired => Len(ItemsAt(arrayItems, pk)) >= 1
           /\ arrayItems = ensureMinArrayItems(deriveArrayItems(initialValues), minByPath)

\* the promises of catalog fetches that have not settled
InFlight == { p \in 1..Len(promises) : promises[p].state = "pending" }

\* C30: at most one remote catalog fetch is in flight at any time, and the
\* listTemplates calls that are waiting at the same time wait for the same
\* request, whatever the interleaving of listTemplates and clearTemplateCache.
C30_OneFetchInFlight ==
    /\ Cardinality(InFlight) <= 1
    /\ \A c, d \in 1..Len(returned) :
         (returned[c].promise \in InFlight /\ returned[d].promise \in InFlight)
         => returned[c].promise = returned[d].promise

=============================================================================
